---------------------------- MODULE Spec2Model ----------------------------
(***************************************************************************)
(* State-machine model of the 2AFC survey session controller               *)
(* (src/unnamed/part_001): participant identification, pack assignment,    *)
(* dataset loading, navigation, the response ledger, autosave, the session *)
(* store and the submission builder.                                       *)
(*                                                                         *)
(* Strings that the code inspects character by character (participant      *)
(* names) are sequences of UTF-16 code units; other strings are opaque.    *)
(* state.index is 0-based as in the code; sequences are 1-based, so        *)
(* questions[index] is written s.questions[index + 1].                     *)
(* The timestamps of responses and session records (timestamp, updatedAt)  *)
(* are left out: nothing in the controller reads them back. completedAt of *)
(* the submission payload is an input of the builder.                      *)
(***************************************************************************)
EXTENDS Integers, Sequences, FiniteSets, TLC

VARIABLES
    config,               \* startup parameters and environment (fixed per page load)
    questions,            \* state.questions
    index,                \* state.index
    responses,            \* state.responses (the ledger)
    questionSet,          \* state.questionSet
    loadedQuestionSet,    \* state.loadedQuestionSet
    packManifest,         \* state.packManifest
    sessionKey,           \* state.sessionKey (<<>> is null)
    autosaveTimer,        \* state.autosaveTimer: TRUE while it holds a timer handle
    pendingAutosaves,     \* how many AUTOSAVE_DELAY_MS timers are pending in the event loop
    remoteSaveController, \* state.remoteSaveController (0 is null)
    isNavigating,         \* state.isNavigating
    cooldownTimer,        \* the 300 ms timer that clears state.isNavigating is pending
    participantName,      \* state.participant.name
    cachedSessions,       \* module-level cachedSessions
    activeLoadToken,      \* module-level activeLoadToken
    lastResolvedNameKey,  \* module-level lastResolvedNameKey
    manifestPending,      \* manifestPromise not settled yet
    resumeQueue,          \* name keys whose .finally() callback waits for manifestPromise
    loads,                \* dataset fetches in flight: [token, set]
    syncs,                \* remote POSTs in flight: [id, manual]
    durable,              \* window.localStorage[STORAGE_KEY], as a document
    pageLoads,            \* history: how many times the page has been loaded
    sessions,             \* history: how many times a name has been resolved to a session
    dom,                  \* the elements the controller reads or writes
    packLog,              \* history: every (nameKey, manifest, pack) pickPackForName returned
    hName, hManifest, hPos, hAcc, hResult, \* the pack-assignment computation, step by step
    currentTrialIndex,    \* study.js: currentTrialIndex
    trialResponses,       \* study.js: responses
    activeScreens,        \* study.js: the screens that carry the class 'active'
    advanceTimers,        \* study.js: pending setTimeout(nextTrial, 500) timers
    completionTimers,     \* study.js: pending setTimeout(showCompletion, 500) timers
    buttons,              \* study.js: prevButton/nextButton disabled, the highlighted choice
    downloaded            \* study.js: the responses of the last results file written

vars == << config, questions, index, responses, questionSet, loadedQuestionSet,
           packManifest, sessionKey, autosaveTimer, pendingAutosaves,
           remoteSaveController,
           isNavigating, cooldownTimer, participantName, cachedSessions,
           activeLoadToken,
           lastResolvedNameKey, manifestPending, resumeQueue, loads, syncs,
           durable, pageLoads, sessions, dom, packLog,
           hName, hManifest, hPos, hAcc, hResult,
           currentTrialIndex, trialResponses, activeScreens, advanceTimers,
           completionTimers, buttons, downloaded >>

ctlVars == << config, questions, index, responses, questionSet, loadedQuestionSet,
              packManifest, sessionKey, autosaveTimer, pendingAutosaves,
           remoteSaveController,
              isNavigating, cooldownTimer, participantName, cachedSessions,
           activeLoadToken,
              lastResolvedNameKey, manifestPending, resumeQueue, loads, syncs,
              durable, pageLoads, sessions, dom, packLog >>

hashVars == << hName, hManifest, hPos, hAcc, hResult >>

studyVars == << currentTrialIndex, trialResponses, activeScreens, advanceTimers,
               completionTimers, buttons, downloaded >>

-----------------------------------------------------------------------------
(* Bounds of the model *)

\* questions in a pack's dataset (the dataset of the questionSet parameter
\* has one more, the second pack one less)
NumQuestions == 2
\* names resolved to a session (resumed or assigned) in one behaviour
MaxSessions == 2
\* reloads of the page
MaxReloads == 1
\* length of the names enumerated for the hash computation
MaxNameLen == 2
\* instants new Date() can return
MaxClock == 2
\* how many steps below 0 Back is followed when the index is negative
MaxBelowZero == 3

-----------------------------------------------------------------------------
(* Values *)

\* JavaScript null where the non-null values are records
Null == [null |-> TRUE]

\* JavaScript null where the non-null values are strings
NullStr == "null"

Min(a, b) == IF a < b THEN a ELSE b

Max(a, b) == IF a > b THEN a ELSE b

MaxInt32 == 2147483647

MinInt32 == (-2147483647) - 1

RECURSIVE SeqFilterNonNull(_)
\* Array.prototype.filter(Boolean) on an array of records and nulls
SeqFilterNonNull(seq) ==
    IF seq = <<>> THEN <<>>
    ELSE IF Head(seq) = Null THEN SeqFilterNonNull(Tail(seq))
         ELSE <<Head(seq)>> \o SeqFilterNonNull(Tail(seq))

-----------------------------------------------------------------------------
(* Names: String.prototype.trim and toLowerCase on code-unit sequences *)

IsWhitespace(c) == c \in {9, 10, 11, 12, 13, 32}

RECURSIVE TrimStart(_)
TrimStart(str) ==
    IF str # <<>> /\ IsWhitespace(Head(str)) THEN TrimStart(Tail(str)) ELSE str

RECURSIVE TrimEnd(_)
TrimEnd(str) ==
    IF str # <<>> /\ IsWhitespace(str[Len(str)])
    THEN TrimEnd(SubSeq(str, 1, Len(str) - 1))
    ELSE str

Trim(str) == TrimEnd(TrimStart(str))

ToLowerCase(str) ==
    [i \in 1..Len(str) |-> IF str[i] >= 65 /\ str[i] <= 90 THEN str[i] + 32 ELSE str[i]]

\* Variant of getNameKey that keeps the case of the name.
getNameKey_Mut(name) == Trim(name)

\* name?.trim().toLowerCase() || ''
getNameKey(name) == ToLowerCase(Trim(name))

\* What the participant can have in the name field when an input event fires:
\* "", " ", "a", "A ", "b"
RawNames == { <<>>, <<32>>, <<97>>, <<65, 32>>, <<98>> }

NameKeys == { getNameKey(n) : n \in RawNames } \ { <<>> }

-----------------------------------------------------------------------------
(* Pack assignment: hashString and pickPackForName *)

\* hash = (hash << 5) - hash + charCode; hash |= 0
\* The statement computes 31 * hash + charCode wrapped to a signed 32-bit
\* integer. It is evaluated on 16-bit halves so that no intermediate value
\* leaves the range of the checker's integers.
HashStep(hash, code) ==
    LET lo    == hash % 65536
        hi    == hash \div 65536
        t     == 31 * lo + code
        lo2   == t % 65536
        hi2   == (31 * hi + (t \div 65536)) % 65536
        hiS   == IF hi2 >= 32768 THEN hi2 - 65536 ELSE hi2
    IN  hiS * 65536 + lo2

RECURSIVE HashFrom(_, _)
HashFrom(hash, str) ==
    IF str = <<>> THEN hash ELSE HashFrom(HashStep(hash, Head(str)), Tail(str))

hashString(value) == HashFrom(0, value)

\* hash % n without Math.abs: JavaScript's % takes the sign of the dividend
JsRemainder(hash, n) ==
    IF hash >= 0 THEN hash % n
    ELSE IF hash = MinInt32 THEN 0 - (((MaxInt32 % n) + 1) % n)
    ELSE 0 - ((0 - hash) % n)

\* Variant of PackIndex without Math.abs.
PackIndex_Mut(hash, n) == JsRemainder(hash, n)

\* Math.abs(hash) % n. Math.abs(-2^31) is 2^31, a double outside the 32-bit
\* range: its remainder is computed from 2^31 - 1.
PackIndex(hash, n) ==
    IF hash = MinInt32 THEN ((MaxInt32 % n) + 1) % n
    ELSE (IF hash < 0 THEN 0 - hash ELSE hash) % n

-----------------------------------------------------------------------------
(* The files the page fetches *)

FallbackSet == "questions_sample"

\* The packs the manifest file can name
PackNames == <<"packA", "packB">>

\* The dataset a questionSet startup parameter can name
CustomSet == "custom_questions"

SetNames == { FallbackSet, CustomSet, "packA", "packB" }

\* Number of questions in data/<set>.json
DatasetLen(set) ==
    IF set = "packB" THEN Max(NumQuestions - 1, 1)
    ELSE IF set = CustomSet THEN NumQuestions + 1
    ELSE NumQuestions

\* data/<set>.json: a non-empty array of question records, each with an id and
\* its clips. The questions of the second pack have the clip videoA only.
Dataset(set) ==
    [i \in 1..DatasetLen(set) |->
        [id |-> [set |-> set, n |-> i], videoA |-> TRUE, videoB |-> set # PackNames[2]]]

\* How a dataset fetch can end: the array, a non-OK status, a body that is
\* not a non-empty array
LoadOutcomes == { "ok", "http_error", "empty" }

\* How the manifest fetch can end. Items of a pack list are strings
\* ([str |-> name]) or something else ([other |-> TRUE]).
ManifestOutcomes ==
    { [kind |-> "array", items |-> << [str |-> "packA"], [str |-> "packB"] >>],
      [kind |-> "object",
       packs |-> << [str |-> "packA"], [other |-> TRUE], [str |-> "packB"] >>],
      [kind |-> "array", items |-> << [other |-> TRUE] >>],
      [kind |-> "object_no_packs"],
      [kind |-> "invalid_json"],
      [kind |-> "http_error"],
      [kind |-> "network_error"] }

\* The manifest fetch that succeeds with the list of both packs
BothPacksOutcome ==
    [kind |-> "array", items |-> << [str |-> "packA"], [str |-> "packB"] >>]

\* How a POST to the response endpoint can end. fetch() resolves for every
\* HTTP status and rejects on a network error or an abort.
SyncOutcomes == { "http_200", "http_500", "network_error" }

\* The startup parameters and environment of a page load: the questionSet
\* parameter, the submission mode, whether the assignment is a preview,
\* whether a responseEndpoint is given, and what localStorage does ("ok",
\* "quota": setItem throws, "none": window.localStorage is missing)
AllConfigs ==
    { c \in [ initialQuestionSet : { NullStr, CustomSet },
              submissionMode     : { "local", "mturk" },
              isPreview          : BOOLEAN,
              responseEndpoint   : BOOLEAN,
              storage            : { "ok", "quota", "none" } ] :
        c.isPreview => c.submissionMode = "mturk" }

\* Several participants, one after the other, on one page in local mode
Configs ==
    { c \in AllConfigs : /\ c.submissionMode = "local"
                         /\ c.initialQuestionSet = NullStr
                         /\ ~c.responseEndpoint
                         /\ c.storage = "ok" }

\* One participant who leaves, reloads and returns, in local mode
SoloConfigs ==
    { c \in AllConfigs : /\ c.submissionMode = "local"
                         /\ c.initialQuestionSet = NullStr
                         /\ ~c.responseEndpoint }

\* One participant in one sitting, in every mode
OneConfigs == AllConfigs

-----------------------------------------------------------------------------
(* The controller's state as one record, so that the functions of the      *)
(* source compose: each takes the state and returns the state after it.    *)

Cur ==
    [ config |-> config, questions |-> questions, index |-> index,
      responses |-> responses, questionSet |-> questionSet,
      loadedQuestionSet |-> loadedQuestionSet, packManifest |-> packManifest,
      sessionKey |-> sessionKey, autosaveTimer |-> autosaveTimer,
      pendingAutosaves |-> pendingAutosaves,
      remoteSaveController |-> remoteSaveController,
      isNavigating |-> isNavigating, cooldownTimer |-> cooldownTimer,
      participantName |-> participantName,
      cachedSessions |-> cachedSessions, activeLoadToken |-> activeLoadToken,
      lastResolvedNameKey |-> lastResolvedNameKey,
      manifestPending |-> manifestPending, resumeQueue |-> resumeQueue,
      loads |-> loads, syncs |-> syncs, durable |-> durable,
      pageLoads |-> pageLoads, sessions |-> sessions, dom |-> dom,
      packLog |-> packLog ]

Install(s) ==
    /\ config' = s.config
    /\ questions' = s.questions
    /\ index' = s.index
    /\ responses' = s.responses
    /\ questionSet' = s.questionSet
    /\ loadedQuestionSet' = s.loadedQuestionSet
    /\ packManifest' = s.packManifest
    /\ sessionKey' = s.sessionKey
    /\ autosaveTimer' = s.autosaveTimer
    /\ pendingAutosaves' = s.pendingAutosaves
    /\ remoteSaveController' = s.remoteSaveController
    /\ isNavigating' = s.isNavigating
    /\ cooldownTimer' = s.cooldownTimer
    /\ participantName' = s.participantName
    /\ cachedSessions' = s.cachedSessions
    /\ activeLoadToken' = s.activeLoadToken
    /\ lastResolvedNameKey' = s.lastResolvedNameKey
    /\ manifestPending' = s.manifestPending
    /\ resumeQueue' = s.resumeQueue
    /\ loads' = s.loads
    /\ syncs' = s.syncs
    /\ durable' = s.durable
    /\ pageLoads' = s.pageLoads
    /\ sessions' = s.sessions
    /\ dom' = s.dom
    /\ packLog' = s.packLog

\* The variables hold the state s
StateIs(s) ==
    /\ config = s.config
    /\ questions = s.questions
    /\ index = s.index
    /\ responses = s.responses
    /\ questionSet = s.questionSet
    /\ loadedQuestionSet = s.loadedQuestionSet
    /\ packManifest = s.packManifest
    /\ sessionKey = s.sessionKey
    /\ autosaveTimer = s.autosaveTimer
    /\ pendingAutosaves = s.pendingAutosaves
    /\ remoteSaveController = s.remoteSaveController
    /\ isNavigating = s.isNavigating
    /\ cooldownTimer = s.cooldownTimer
    /\ participantName = s.participantName
    /\ cachedSessions = s.cachedSessions
    /\ activeLoadToken = s.activeLoadToken
    /\ lastResolvedNameKey = s.lastResolvedNameKey
    /\ manifestPending = s.manifestPending
    /\ resumeQueue = s.resumeQueue
    /\ loads = s.loads
    /\ syncs = s.syncs
    /\ durable = s.durable
    /\ pageLoads = s.pageLoads
    /\ sessions = s.sessions
    /\ dom = s.dom
    /\ packLog = s.packLog

\* state.responses[i], undefined read as null
ResponseAt(s, i) ==
    IF i + 1 \in DOMAIN s.responses THEN s.responses[i + 1] ELSE Null

\* array[i] = value on a JavaScript array: slots skipped over are holes,
\* which read as empty
ArraySet(arr, i, value) ==
    [k \in 1..Max(Len(arr), i + 1) |->
        IF k = i + 1 THEN value ELSE IF k <= Len(arr) THEN arr[k] ELSE Null]

-----------------------------------------------------------------------------
(* Blocking and navigation gating *)

isParticipantValid(s) ==
    IF s.config.submissionMode = "mturk" THEN TRUE
    ELSE Trim(s.participantName) # <<>>

getBlockingReason(s) ==
    IF s.config.submissionMode = "mturk" /\ s.config.isPreview
    THEN "Accept the HIT to unlock the study interface."
    ELSE IF s.config.submissionMode # "mturk" /\ ~isParticipantValid(s)
    THEN "Enter your display name to begin."
    ELSE NullStr

\* Variant of setControlsLocked that leaves the Skip button as it is, as the
\* older controller (src/assets/js/app.js) does.
setControlsLocked_Mut(s, locked) ==
    [s EXCEPT !.dom =
        [@ EXCEPT !.choiceDisabled = IF s.dom.choices = {} THEN @ ELSE locked,
                  !.backDisabled   = (locked \/ s.index = 0),
                  !.nextDisabled   = IF locked THEN TRUE ELSE @]]

setControlsLocked(s, locked) ==
    [s EXCEPT !.dom =
        [@ EXCEPT !.choiceDisabled = IF s.dom.choices = {} THEN @ ELSE locked,
                  !.backDisabled   = (locked \/ s.index = 0),
                  !.nextDisabled   = IF locked THEN TRUE ELSE @,
                  !.skipDisabled   = IF locked THEN TRUE ELSE @]]

allQuestionsAnswered(s) ==
    /\ Len(s.questions) > 0
    /\ Len(SeqFilterNonNull(s.responses)) = Len(s.questions)

prepareSubmission(s) ==
    IF s.config.submissionMode = "mturk"
    THEN [s EXCEPT !.dom =
            [@ EXCEPT !.submissionPanelHidden = FALSE,
                      !.submitDisabled = FALSE,
                      !.helper = "All questions answered. Review below and submit when ready."]]
    ELSE [s EXCEPT !.dom =
            [@ EXCEPT !.localPanelHidden = FALSE,
                      !.sendDisabled = ~s.config.responseEndpoint,
                      !.helper = "All questions answered. Save or send your responses below."]]

updateNavState(s) ==
    LET blockingReason == getBlockingReason(s) IN
    IF blockingReason # NullStr
    THEN [setControlsLocked(s, TRUE) EXCEPT !.dom.helper = blockingReason]
    ELSE
        LET s1 == setControlsLocked(s, FALSE)
            total == Len(s1.questions)
            answeredCurrent == ResponseAt(s1, s1.index) # Null
            onLastQuestion == s1.index = total - 1
            s2 == [s1 EXCEPT !.dom =
                     [@ EXCEPT !.backDisabled = (s1.index = 0),
                               !.nextDisabled = (~answeredCurrent \/ onLastQuestion),
                               !.skipDisabled = (answeredCurrent \/ total = 0),
                               !.helper = IF answeredCurrent
                                          THEN "You can adjust your choice or continue."
                                          ELSE "Select A or B to continue."]]
        IN  IF allQuestionsAnswered(s2)
            THEN prepareSubmission(s2)
            ELSE [s2 EXCEPT !.dom =
                    [@ EXCEPT !.submissionPanelHidden = TRUE,
                              !.submitDisabled = TRUE,
                              !.localPanelHidden = TRUE]]

-----------------------------------------------------------------------------
(* The session store *)

\* JSON.parse(JSON.stringify(store)) on a store document: every session
\* record is written out field by field; an empty ledger slot is null.
JsonRoundTrip(doc) ==
    [k \in DOMAIN doc |->
        IF "index" \in DOMAIN doc[k]
        THEN [ questionSet |-> doc[k].questionSet,
               responses   |-> [i \in DOMAIN doc[k].responses |-> doc[k].responses[i]],
               index       |-> doc[k].index,
               participant |-> [name |-> doc[k].participant.name] ]
        ELSE [ questionSet |-> doc[k].questionSet,
               responses   |-> [i \in DOMAIN doc[k].responses |-> doc[k].responses[i]],
               participant |-> [name |-> doc[k].participant.name] ]]

\* Returns the store object and the state with the cache filled.
readSessions(s) ==
    IF s.cachedSessions # Null
    THEN [s |-> s, ret |-> s.cachedSessions.doc]
    ELSE
        LET doc == IF s.config.storage \in {"none", "denied"} \/ s.durable = Null
                   THEN <<>>
                   ELSE JsonRoundTrip(s.durable.doc)
        IN  [s |-> [s EXCEPT !.cachedSessions = [doc |-> doc]], ret |-> doc]

writeSessions(s, store) ==
    [s EXCEPT !.cachedSessions = [doc |-> store],
              !.durable = IF s.config.storage = "ok"
                          THEN [doc |-> JsonRoundTrip(store)]
                          ELSE @]

\* persistSession throws: the key is set and reading window.localStorage
\* raises a SecurityError (storage denied to the document)
PersistThrows(s) == s.sessionKey # <<>> /\ s.config.storage = "denied"

persistSession_Mut(s) ==
    IF s.sessionKey = <<>> \/ s.config.storage = "none" \/ PersistThrows(s)
    THEN s
    ELSE
        LET r == readSessions(s)
            record == [ questionSet |-> s.questionSet,
                        responses   |-> s.responses,
                        index       |-> s.index,
                        participant |-> [name |-> s.participantName] ]
            store == [k \in DOMAIN r.ret \cup {s.sessionKey} |->
                        IF k # s.sessionKey THEN r.ret[k]
                        ELSE IF k \in DOMAIN r.ret
                             THEN [r.ret[k] EXCEPT !.responses = s.responses]
                             ELSE record]
        IN  writeSessions(r.s, store)

\* Where PersistThrows(s) holds the caller takes its exceptional path
persistSession(s) ==
    IF s.sessionKey = <<>> \/ s.config.storage = "none" \/ PersistThrows(s)
    THEN s
    ELSE
        LET r == readSessions(s)
            record == [ questionSet |-> s.questionSet,
                        responses   |-> s.responses,
                        index       |-> s.index,
                        participant |-> [name |-> s.participantName] ]
            store == [k \in DOMAIN r.ret \cup {s.sessionKey} |->
                        IF k = s.sessionKey THEN record ELSE r.ret[k]]
        IN  writeSessions(r.s, store)

\* Returns the record stored under nameKey, or Null, and the state with the
\* cache filled.
getSessionRecord(s, nameKey) ==
    LET r == readSessions(s) IN
    [s |-> r.s, ret |-> IF nameKey \in DOMAIN r.ret THEN r.ret[nameKey] ELSE Null]

-----------------------------------------------------------------------------
(* Rendering *)

deriveOptions(question) ==
    (IF question.videoA THEN <<"A">> ELSE <<>>) \o
    (IF question.videoB THEN <<"B">> ELSE <<>>)

SeqRange(seq) == { seq[i] : i \in DOMAIN seq }

renderOptions(s, question) ==
    [s EXCEPT !.dom =
        [@ EXCEPT !.choices = SeqRange(deriveOptions(question)),
                  !.choiceDisabled = FALSE]]

\* Variant of renderQuestion that stores the requested index before it looks
\* at the cooldown flag.
renderQuestion_Mut(s, idx) ==
    IF s.isNavigating THEN [s EXCEPT !.index = idx]
    ELSE
        LET s1 == [s EXCEPT !.isNavigating = TRUE, !.index = idx] IN
        IF idx + 1 \notin DOMAIN s1.questions
        THEN [s1 EXCEPT !.isNavigating = FALSE]
        ELSE
            LET question == s1.questions[idx + 1]
                s2 == [s1 EXCEPT !.dom.shown = question.id]
                s3 == renderOptions(s2, question)
                s4 == updateNavState(s3)
            IN  IF PersistThrows(s4) THEN s4
                ELSE [persistSession(s4) EXCEPT !.cooldownTimer = TRUE]

renderQuestion(s, idx) ==
    IF s.isNavigating THEN s
    ELSE
        LET s1 == [s EXCEPT !.isNavigating = TRUE, !.index = idx] IN
        IF idx + 1 \notin DOMAIN s1.questions
        THEN [s1 EXCEPT !.isNavigating = FALSE]
        ELSE
            LET question == s1.questions[idx + 1]
                s2 == [s1 EXCEPT !.dom.shown = question.id]
                s3 == renderOptions(s2, question)
                s4 == updateNavState(s3)
            IN  IF PersistThrows(s4) THEN s4
                ELSE [persistSession(s4) EXCEPT !.cooldownTimer = TRUE]

alignResponses(s, total) ==
    [s EXCEPT !.responses =
        [i \in 1..total |-> IF i \in DOMAIN s.responses THEN s.responses[i] ELSE Null]]

\* The index of the first empty slot of the ledger, or -1
RECURSIVE FindFirstEmpty(_, _)
FindFirstEmpty(seq, from) ==
    IF from > Len(seq) THEN -1
    ELSE IF seq[from] = Null THEN from - 1
    ELSE FindFirstEmpty(seq, from + 1)

determineResumeIndex(s) ==
    IF s.index >= 0
    THEN Min(s.index, Max(Len(s.questions) - 1, 0))
    ELSE
        LET firstUnanswered == FindFirstEmpty(s.responses, 1) IN
        IF firstUnanswered >= 0 THEN firstUnanswered
        ELSE Max(Len(s.questions) - 1, 0)

-----------------------------------------------------------------------------
(* Dataset loading *)

\* loadQuestions up to its first await: the fetch is started
loadQuestions(s, setOverride) ==
    LET targetSet ==
            IF setOverride # NullStr THEN setOverride
            ELSE IF s.questionSet # NullStr THEN s.questionSet
            ELSE IF s.config.initialQuestionSet # NullStr THEN s.config.initialQuestionSet
            ELSE FallbackSet
        requestToken == s.activeLoadToken + 1
    IN  [s EXCEPT !.questionSet = targetSet,
                  !.activeLoadToken = requestToken,
                  !.loads = @ \cup { [token |-> requestToken, set |-> targetSet] }]

\* loadQuestions from the fetch's answer on
\* The catch block of loadQuestions
loadQuestionsCatch(s) ==
    [s EXCEPT !.dom =
        [@ EXCEPT !.helper = "Could not load the question list. Confirm the file exists in /data.",
                  !.nextDisabled = TRUE]]

loadQuestionsSettle(s, load, outcome) ==
    LET s0 == [s EXCEPT !.loads = @ \ {load}] IN
    IF outcome = "ok"
    THEN
        IF load.token # s0.activeLoadToken THEN s0
        ELSE
            LET payload == Dataset(load.set)
                s1 == [s0 EXCEPT !.questions = payload, !.loadedQuestionSet = load.set]
                s2 == alignResponses(s1, Len(payload))
                startIndex == determineResumeIndex(s2)
                s3 == renderQuestion(s2, startIndex)
                renderThrew == /\ ~s2.isNavigating
                               /\ startIndex + 1 \in DOMAIN s2.questions
                               /\ PersistThrows(s2)
                s4 == [s3 EXCEPT !.dom.helper = "Make a selection to continue."]
            IN  IF renderThrew THEN loadQuestionsCatch(s3)
                ELSE IF PersistThrows(s4) THEN loadQuestionsCatch(s4)
                ELSE persistSession(s4)
    ELSE loadQuestionsCatch(s0)

-----------------------------------------------------------------------------
(* Autosave and remote sync *)

scheduleAutosave_Mut(s) ==
    [s EXCEPT !.autosaveTimer = TRUE,
              !.pendingAutosaves = IF @ < 2 THEN @ + 1 ELSE @]

\* clearTimeout of the handle held, if any, then setTimeout
scheduleAutosave(s) ==
    [s EXCEPT !.autosaveTimer = TRUE,
              !.pendingAutosaves = (IF s.autosaveTimer THEN @ - 1 ELSE @) + 1]

syncSettleFailure_Mut(s, req, outcome) ==
    LET success == outcome # "network_error"
        s1 == [s EXCEPT !.syncs = @ \ {req},
                        !.remoteSaveController =
                            IF @ = req.id THEN 0 ELSE @]
    IN  IF req.manual
        THEN [s1 EXCEPT !.dom =
                [@ EXCEPT !.submissionStatus =
                              IF success THEN "Responses sent successfully!"
                              ELSE "Upload failed. Please try again or use the download option.",
                          !.sendDisabled = ~success]]
        ELSE s1

syncSettle_Mut(s, req, outcome) ==
    LET success == outcome # "network_error"
        s1 == [s EXCEPT !.syncs = @ \ {req},
                        !.remoteSaveController = 0]
    IN  IF req.manual
        THEN [s1 EXCEPT !.dom =
                [@ EXCEPT !.submissionStatus =
                              IF success THEN "Responses sent successfully!"
                              ELSE "Upload failed. Please try again or use the download option.",
                          !.sendDisabled = FALSE]]
        ELSE s1

\* syncToEndpoint from the fetch's settling on, and, for a manual send, the
\* rest of sendResponses
syncSettle(s, req, outcome) ==
    LET success == outcome # "network_error"
        s1 == [s EXCEPT !.syncs = @ \ {req},
                        !.remoteSaveController =
                            IF @ = req.id THEN 0 ELSE @]
    IN  IF req.manual
        THEN [s1 EXCEPT !.dom =
                [@ EXCEPT !.submissionStatus =
                              IF success THEN "Responses sent successfully!"
                              ELSE "Upload failed. Please try again or use the download option.",
                          !.sendDisabled = FALSE]]
        ELSE s1

\* syncToEndpoint up to its await. Aborting the pending request rejects its
\* fetch: its continuation is queued as a microtask (see AfterAbort).
syncToEndpoint(s, manual) ==
    IF ~s.config.responseEndpoint THEN s
    ELSE
        LET id == IF s.remoteSaveController = 1 THEN 2 ELSE 1 IN
        [s EXCEPT !.remoteSaveController = id,
                  !.syncs = @ \cup { [id |-> id, manual |-> manual] }]

\* The microtasks that follow a handler that started a sync from state s0:
\* the request it aborted settles as rejected.
AfterAbort(s0, s) ==
    LET aborted == { r \in s0.syncs : r.id = s0.remoteSaveController /\ r \in s.syncs
                                      /\ s.remoteSaveController # r.id }
    IN  IF aborted = {} THEN s
        ELSE syncSettle(s, CHOOSE r \in aborted : TRUE, "network_error")

autosaveFire(s) ==
    LET s1 == [s EXCEPT !.autosaveTimer = FALSE, !.pendingAutosaves = @ - 1]
        s2 == persistSession(s1)
        isPartial == ~allQuestionsAnswered(s2)
    IN  IF PersistThrows(s1) THEN s1
        ELSE AfterAbort(s, syncToEndpoint(s2, FALSE))

-----------------------------------------------------------------------------
(* Recording responses and navigating *)

\* The fields of the response that the controller or the export depend on
createResponsePayload(question, choice, skipped) ==
    [ questionId |-> question.id, choice |-> choice, skipped |-> skipped ]

\* History: the response with the session key in force when it was created
\* (in the code its creation is marked by its timestamp).
CreatedBy(s, response) ==
    [ questionId |-> response.questionId, choice |-> response.choice,
      skipped |-> response.skipped, by |-> s.sessionKey ]

\* Variant of recordResponse that files the answer in the first empty slot
\* of the ledger (the last slot when none is empty).
recordResponse_Mut(s, choice) ==
    IF s.index + 1 \notin DOMAIN s.questions THEN s
    ELSE
        LET response == createResponsePayload(s.questions[s.index + 1], choice, FALSE)
            empty    == FindFirstEmpty(s.responses, 1)
            slot     == IF empty >= 0 THEN empty ELSE Len(s.responses) - 1
        IN  scheduleAutosave([s EXCEPT !.responses = ArraySet(@, slot, CreatedBy(s, response))])

recordResponse(s, choice) ==
    IF s.index + 1 \notin DOMAIN s.questions THEN s
    ELSE
        LET response == createResponsePayload(s.questions[s.index + 1], choice, FALSE) IN
        scheduleAutosave([s EXCEPT !.responses = ArraySet(@, s.index, CreatedBy(s, response))])

handleChoice(s, choice) == updateNavState(recordResponse(s, choice))

\* Variant of skipCurrentQuestion that stays on the skipped question.
skipCurrentQuestion_Mut(s) ==
    IF s.index + 1 \notin DOMAIN s.questions \/ s.dom.skipDisabled THEN s
    ELSE
        LET response == createResponsePayload(s.questions[s.index + 1], NullStr, TRUE)
            s1 == scheduleAutosave([s EXCEPT !.responses = ArraySet(@, s.index, CreatedBy(s, response))])
        IN  updateNavState(s1)

skipCurrentQuestion(s) ==
    IF s.index + 1 \notin DOMAIN s.questions \/ s.dom.skipDisabled THEN s
    ELSE
        LET response == createResponsePayload(s.questions[s.index + 1], NullStr, TRUE)
            s1 == scheduleAutosave([s EXCEPT !.responses = ArraySet(@, s.index, CreatedBy(s, response))])
            onLastQuestion == s1.index >= Len(s1.questions) - 1
        IN  IF onLastQuestion THEN updateNavState(s1)
            ELSE renderQuestion(s1, s1.index + 1)

goNext(s) ==
    IF s.index >= Len(s.questions) - 1 \/ s.isNavigating THEN s
    ELSE renderQuestion(s, s.index + 1)

\* Variant of goBack that, like Next, refuses to leave an unanswered question.
goBack_Mut(s) ==
    IF s.index = 0 \/ s.isNavigating \/ ResponseAt(s, s.index) = Null THEN s
    ELSE renderQuestion(s, s.index - 1)

goBack(s) ==
    IF s.index = 0 \/ s.isNavigating THEN s
    ELSE renderQuestion(s, s.index - 1)

-----------------------------------------------------------------------------
(* Submission *)

\* The instants new Date() can return
Times == 1..MaxClock

\* Variant of buildSubmissionPayload that hands the ledger over as it is,
\* empty slots included.
buildSubmissionPayload_Mut(s, now) ==
    [ s   |-> s,
      ret |-> [ questionSet |->
                    IF s.questionSet # NullStr THEN s.questionSet
                    ELSE IF s.config.initialQuestionSet # NullStr
                         THEN s.config.initialQuestionSet
                    ELSE FallbackSet,
                completedAt    |-> now,
                participant    |-> [name |-> s.participantName],
                responses      |-> s.responses,
                totalQuestions |-> Len(s.questions) ] ]

\* Returns the payload and the state after the call; now is what new Date()
\* returns.
buildSubmissionPayload(s, now) ==
    [ s   |-> s,
      ret |-> [ questionSet |->
                    IF s.questionSet # NullStr THEN s.questionSet
                    ELSE IF s.config.initialQuestionSet # NullStr
                         THEN s.config.initialQuestionSet
                    ELSE FallbackSet,
                completedAt    |-> now,
                participant    |-> [name |-> s.participantName],
                responses      |-> SeqFilterNonNull(s.responses),
                totalQuestions |-> Len(s.questions) ] ]

\* Returns the JSON file handed to the browser and the state after the call.
downloadResponses(s, now) ==
    IF PersistThrows(s) THEN [s |-> s, ret |-> Null] ELSE
    LET s1 == persistSession(s)
        b  == buildSubmissionPayload(s1, now)
    IN  [ s   |-> [b.s EXCEPT !.dom.submissionStatus =
                      "Download complete. Send the JSON file to the organizer."],
          ret |-> b.ret ]

\* The body syncToEndpoint posts
syncBody_Mut(s, isPartial, now) ==
    [ payload  |-> buildSubmissionPayload(s, now).ret,
      autosave |-> isPartial,
      status   |-> IF isPartial THEN "in_progress" ELSE "completed",
      progress |-> [ answered |-> Len(SeqFilterNonNull(s.responses)),
                     total    |-> Len(s.questions) ] ]

syncBody(s, isPartial, now) ==
    [ payload  |-> buildSubmissionPayload(s, now).ret,
      autosave |-> TRUE,
      status   |-> IF isPartial THEN "in_progress" ELSE "completed",
      progress |-> [ answered |-> Len(SeqFilterNonNull(s.responses)),
                     total    |-> Len(s.questions) ] ]

\* sendResponses up to its await
sendResponses(s) ==
    IF ~s.config.responseEndpoint
    THEN [s EXCEPT !.dom.submissionStatus =
            "No upload endpoint configured. Use the download button instead."]
    ELSE IF PersistThrows(s) THEN s
    ELSE
        LET s1 == persistSession(s)
            s2 == [s1 EXCEPT !.dom = [@ EXCEPT !.sendDisabled = TRUE,
                                               !.submissionStatus = "Uploading..."]]
        IN  AfterAbort(s, syncToEndpoint(s2, TRUE))

-----------------------------------------------------------------------------
(* Participant identification, resume and pack assignment *)

\* Variant of pickPackForName that balances the packs: it starts from the
\* hashed index and moves on by one pack for every assignment made so far.
pickPackForName_Mut(s, nameKey) ==
    IF Len(s.packManifest) = 0
    THEN [s |-> s, ret |-> FallbackSet]
    ELSE
        LET hash == hashString(nameKey)
            idx  == (PackIndex(hash, Len(s.packManifest)) + Cardinality(s.packLog))
                        % Len(s.packManifest)
        IN  [s |-> s, ret |-> s.packManifest[idx + 1]]

\* Returns the pack and the state after the call.
pickPackForName(s, nameKey) ==
    IF Len(s.packManifest) = 0
    THEN [s |-> s, ret |-> FallbackSet]
    ELSE
        LET hash == hashString(nameKey)
            idx  == PackIndex(hash, Len(s.packManifest))
        IN  [s |-> s, ret |-> s.packManifest[idx + 1]]

resetProgressForNewParticipant(s) ==
    [s EXCEPT !.questions = <<>>,
              !.responses = <<>>,
              !.index = 0,
              !.loadedQuestionSet = NullStr,
              !.questionSet = s.config.initialQuestionSet]

\* Variant of applyStoredSession that restores the ledger but starts over at
\* the first question.
applyStoredSession_Mut(s, record) ==
    LET s1 == [s EXCEPT
                 !.questionSet =
                     IF record.questionSet # NullStr THEN record.questionSet
                     ELSE IF @ # NullStr THEN @
                     ELSE s.config.initialQuestionSet,
                 !.responses = [i \in DOMAIN record.responses |-> record.responses[i]],
                 !.index = 0]
    IN  IF s1.questionSet # NullStr THEN loadQuestions(s1, s1.questionSet) ELSE s1

applyStoredSession(s, record) ==
    LET s1 == [s EXCEPT
                 !.questionSet =
                     IF record.questionSet # NullStr THEN record.questionSet
                     ELSE IF @ # NullStr THEN @
                     ELSE s.config.initialQuestionSet,
                 !.responses = [i \in DOMAIN record.responses |-> record.responses[i]],
                 !.index = IF "index" \in DOMAIN record THEN record.index ELSE 0,
                 !.participantName =
                     IF record.participant.name # <<>> THEN record.participant.name ELSE @]
    IN  IF s1.loadedQuestionSet = s1.questionSet /\ Len(s1.questions) > 0
        THEN renderQuestion(s1, determineResumeIndex(s1))
        ELSE IF s1.questionSet # NullStr THEN loadQuestions(s1, s1.questionSet)
        ELSE s1

resumeOrAssignSession(s, nameKey) ==
    LET g == getSessionRecord(s, nameKey) IN
    IF g.ret # Null THEN applyStoredSession(g.s, g.ret)
    ELSE IF g.s.questionSet # NullStr /\ g.s.config.initialQuestionSet # NullStr
    THEN loadQuestions([g.s EXCEPT !.dom.helper = "Loading your question set..."],
                       g.s.questionSet)
    ELSE
        LET p == pickPackForName(g.s, nameKey)
            s1 == [p.s EXCEPT !.questionSet = p.ret,
                              !.dom.helper = "Loading your question set...",
                              !.packLog = @ \cup { <<nameKey, p.s.packManifest, p.ret>> }]
        IN  loadQuestions(s1, p.ret)

\* The input handler, and the .finally() callback when manifestPromise is
\* already settled (it then runs before any other event)
handleParticipantInput(s, raw) ==
    LET name == Trim(raw)
        s1 == updateNavState([s EXCEPT !.participantName = name])
        nameKey == getNameKey(name)
    IN  IF nameKey = <<>>
        THEN [s1 EXCEPT !.sessionKey = <<>>, !.lastResolvedNameKey = <<>>]
        ELSE IF nameKey = s1.lastResolvedNameKey THEN s1
        ELSE
            LET s2 == resetProgressForNewParticipant(
                          [s1 EXCEPT !.lastResolvedNameKey = nameKey])
                s3 == [s2 EXCEPT !.sessionKey = nameKey]
            IN  IF s3.manifestPending
                THEN [s3 EXCEPT !.resumeQueue = Append(@, nameKey)]
                ELSE resumeOrAssignSession(s3, nameKey)

RECURSIVE RunResumes(_, _)
\* The queued .finally() callbacks, in the order they were attached
RunResumes(s, queue) ==
    IF queue = <<>> THEN s
    ELSE RunResumes(resumeOrAssignSession(s, Head(queue)), Tail(queue))

\* The strings of a manifest item list
RECURSIVE FilterStrings(_)
FilterStrings(items) ==
    IF items = <<>> THEN <<>>
    ELSE IF "str" \in DOMAIN Head(items)
         THEN <<Head(items).str>> \o FilterStrings(Tail(items))
         ELSE FilterStrings(Tail(items))

\* Variant of loadPackManifestSettle that reports a manifest it cannot use
\* to the participant instead of falling back.
loadPackManifestSettle_Mut(s, outcome) ==
    LET packs == IF outcome.kind = "array" THEN FilterStrings(outcome.items)
                 ELSE IF outcome.kind = "object" THEN FilterStrings(outcome.packs)
                 ELSE <<>>
        s1 == [s EXCEPT !.packManifest = packs,
                        !.manifestPending = FALSE,
                        !.resumeQueue = <<>>]
    IN  IF outcome.kind \in {"array", "object"}
        THEN RunResumes(s1, s.resumeQueue)
        ELSE [s1 EXCEPT !.dom =
                [@ EXCEPT !.helper = "Could not load the question list. Confirm the file exists in /data.",
                          !.nextDisabled = TRUE]]

\* loadPackManifest from the fetch's answer on, then the callbacks waiting
\* for manifestPromise
loadPackManifestSettle(s, outcome) ==
    LET packs == IF outcome.kind = "array" THEN FilterStrings(outcome.items)
                 ELSE IF outcome.kind = "object" THEN FilterStrings(outcome.packs)
                 ELSE <<>>
        s1 == [s EXCEPT !.packManifest = packs,
                        !.manifestPending = FALSE,
                        !.resumeQueue = <<>>]
    IN  RunResumes(s1, s.resumeQueue)

-----------------------------------------------------------------------------
(* Page load: the module body, configureSubmissionMode and start() *)

\* The controls start disabled and the panels hidden: every one of them is
\* rewritten by updateNavState before the first question can be shown.
InitialDom ==
    [ nextDisabled |-> TRUE, backDisabled |-> TRUE, skipDisabled |-> TRUE,
      choices |-> {}, choiceDisabled |-> FALSE, shown |-> Null,
      localPanelHidden |-> TRUE, sendDisabled |-> FALSE,
      submissionPanelHidden |-> TRUE, submitDisabled |-> TRUE,
      helper |-> "", submissionStatus |-> "" ]

PageInit(cfg, storage, log, n, m) ==
    LET s0 == [ config |-> cfg, questions |-> <<>>, index |-> 0,
                responses |-> <<>>, questionSet |-> cfg.initialQuestionSet,
                loadedQuestionSet |-> NullStr, packManifest |-> <<>>,
                sessionKey |-> <<>>, autosaveTimer |-> FALSE,
                pendingAutosaves |-> 0,
                remoteSaveController |-> 0, isNavigating |-> FALSE,
                cooldownTimer |-> FALSE,
                participantName |-> <<>>, cachedSessions |-> Null,
                activeLoadToken |-> 0, lastResolvedNameKey |-> <<>>,
                manifestPending |-> (cfg.initialQuestionSet = NullStr),
                resumeQueue |-> <<>>, loads |-> {}, syncs |-> {},
                durable |-> storage, pageLoads |-> n, sessions |-> m,
                dom |-> InitialDom,
                packLog |-> log ]
    IN  IF s0.questionSet # NullStr THEN loadQuestions(s0, s0.questionSet) ELSE s0

\* Closing or reloading the page: the beforeunload handler persists, every
\* timer and request of the page is gone, and the page starts again on the
\* same URL with what localStorage holds.
reloadPage(s) ==
    LET s1 == persistSession(s) IN
    PageInit(s1.config, s1.durable, s1.packLog, s1.pageLoads + 1, s1.sessions)

-----------------------------------------------------------------------------
(* Events *)

\* The input resolves a name to a session: resetProgressForNewParticipant
\* runs and a resume is queued or run
ResolvesName(s, raw) ==
    /\ getNameKey(Trim(raw)) # <<>>
    /\ getNameKey(Trim(raw)) # s.lastResolvedNameKey

HandleParticipantInput(raw) ==
    /\ ResolvesName(Cur, raw) => sessions < MaxSessions
    /\ Install([handleParticipantInput(Cur, raw) EXCEPT
                   !.sessions = IF ResolvesName(Cur, raw) THEN @ + 1 ELSE @])
    /\ UNCHANGED << hashVars, studyVars >>

ManifestDone(outcome) ==
    /\ manifestPending
    /\ Install(loadPackManifestSettle(Cur, outcome))
    /\ UNCHANGED << hashVars, studyVars >>

LoadDone(load, outcome) ==
    /\ load \in loads
    /\ Install(loadQuestionsSettle(Cur, load, outcome))
    /\ UNCHANGED << hashVars, studyVars >>

\* A change event of one of the rendered radio inputs
HandleChoice(choice) ==
    /\ choice \in dom.choices
    /\ ~dom.choiceDisabled
    /\ Install(handleChoice(Cur, choice))
    /\ UNCHANGED << hashVars, studyVars >>

SkipCurrentQuestion ==
    /\ ~dom.skipDisabled
    /\ Install(skipCurrentQuestion(Cur))
    /\ UNCHANGED << hashVars, studyVars >>

GoNext ==
    /\ ~dom.nextDisabled
    /\ Install(goNext(Cur))
    /\ UNCHANGED << hashVars, studyVars >>

\* A negative index (from a stored record) goes down with every click
GoBack ==
    /\ ~dom.backDisabled
    /\ index > 0 - MaxBelowZero
    /\ Install(goBack(Cur))
    /\ UNCHANGED << hashVars, studyVars >>

\* The 300 ms timer of renderQuestion
CooldownExpire ==
    /\ cooldownTimer
    /\ Install([Cur EXCEPT !.isNavigating = FALSE, !.cooldownTimer = FALSE])
    /\ UNCHANGED << hashVars, studyVars >>

\* The AUTOSAVE_DELAY_MS timer of scheduleAutosave
AutosaveFire ==
    /\ pendingAutosaves > 0
    /\ Install(autosaveFire(Cur))
    /\ UNCHANGED << hashVars, studyVars >>

DownloadResponses ==
    /\ ~dom.localPanelHidden
    /\ \E now \in Times : Install(downloadResponses(Cur, now).s)
    /\ UNCHANGED << hashVars, studyVars >>

SendResponses ==
    /\ ~dom.localPanelHidden
    /\ config.responseEndpoint
    /\ ~dom.sendDisabled
    /\ Install(sendResponses(Cur))
    /\ UNCHANGED << hashVars, studyVars >>

SyncDone(req, outcome) ==
    /\ req \in syncs
    /\ Install(syncSettle(Cur, req, outcome))
    /\ UNCHANGED << hashVars, studyVars >>

Reload ==
    /\ pageLoads <= MaxReloads
    /\ Install(reloadPage(Cur))
    /\ UNCHANGED << hashVars, studyVars >>

-----------------------------------------------------------------------------
(* The basic study (src/study.js): a page of its own, with a welcome, a    *)
(* study and a completion screen. Its responses array is trialResponses    *)
(* here. Response times and timestamps are left out: the page never reads  *)
(* them back. The page markup is not part of the sources: the welcome      *)
(* screen is taken to be the one active at load, and only the controls of  *)
(* an active screen can be clicked.                                        *)

\* studyTrials.length
NumTrials == 3

\* How many 500 ms timers can be pending at once (clicks within 500 ms)
MaxTimers == 2

\* new Array(studyTrials.length).fill(null)
NoResponses == [i \in 1..NumTrials |-> Null]

\* loadTrial(index), after currentTrialIndex has been set by the caller:
\* updateButtonStates and the highlight of the stored choice
loadTrial(idx, resp, btn) ==
    IF idx < 0 \/ idx >= NumTrials
    THEN btn
    ELSE [ prevDisabled |-> (idx = 0),
           nextDisabled |-> (resp[idx + 1] = Null),
           selected     |-> IF resp[idx + 1] # Null THEN resp[idx + 1].choice ELSE NullStr ]

\* nextTrial's effect on the index
nextTrial(idx) == IF idx < NumTrials - 1 THEN idx + 1 ELSE idx

\* previousTrial's effect on the index
previousTrial(idx) == IF idx > 0 THEN idx - 1 ELSE idx

\* The responses array of the results file
downloadResults(resp) == SeqFilterNonNull(resp)

\* The basic study page is not open
StudyIdle ==
    /\ currentTrialIndex = 0
    /\ trialResponses = <<>>
    /\ activeScreens = {}
    /\ advanceTimers = 0
    /\ completionTimers = 0
    /\ buttons = [prevDisabled |-> TRUE, nextDisabled |-> TRUE, selected |-> NullStr]
    /\ downloaded = Null

\* initStudy; the disabled attributes of the two buttons come from the markup
InitStudy ==
    /\ currentTrialIndex = 0
    /\ trialResponses = NoResponses
    /\ activeScreens = {"welcome"}
    /\ advanceTimers = 0
    /\ completionTimers = 0
    /\ \E p \in BOOLEAN, n \in BOOLEAN :
          buttons = [prevDisabled |-> p, nextDisabled |-> n, selected |-> NullStr]
    /\ downloaded = Null

StartStudy ==
    /\ "welcome" \in activeScreens
    /\ activeScreens' = (activeScreens \ {"welcome"}) \cup {"study"}
    /\ buttons' = loadTrial(currentTrialIndex, trialResponses, buttons)
    /\ UNCHANGED << currentTrialIndex, trialResponses, advanceTimers,
                    completionTimers, downloaded >>
    /\ UNCHANGED << ctlVars, hashVars >>

SelectVideo(choice) ==
    /\ "study" \in activeScreens
    /\ advanceTimers + completionTimers < MaxTimers
    /\ trialResponses' =
          [trialResponses EXCEPT ![currentTrialIndex + 1] =
              [trialIndex |-> currentTrialIndex, choice |-> choice]]
    /\ buttons' = [buttons EXCEPT !.selected = choice, !.nextDisabled = FALSE]
    /\ IF currentTrialIndex < NumTrials - 1
       THEN advanceTimers' = advanceTimers + 1 /\ UNCHANGED completionTimers
       ELSE completionTimers' = completionTimers + 1 /\ UNCHANGED advanceTimers
    /\ UNCHANGED << currentTrialIndex, activeScreens, downloaded >>
    /\ UNCHANGED << ctlVars, hashVars >>

\* One of the auto-advance timers fires: nextTrial()
AdvanceTimerFire ==
    /\ advanceTimers > 0
    /\ advanceTimers' = advanceTimers - 1
    /\ currentTrialIndex' = nextTrial(currentTrialIndex)
    /\ buttons' = IF currentTrialIndex < NumTrials - 1
                  THEN loadTrial(currentTrialIndex', trialResponses, buttons)
                  ELSE buttons
    /\ UNCHANGED << trialResponses, activeScreens, completionTimers, downloaded >>
    /\ UNCHANGED << ctlVars, hashVars >>

\* One of the completion timers fires: showCompletion()
CompletionTimerFire ==
    /\ completionTimers > 0
    /\ completionTimers' = completionTimers - 1
    /\ activeScreens' = (activeScreens \ {"study"}) \cup {"completion"}
    /\ UNCHANGED << currentTrialIndex, trialResponses, advanceTimers, buttons,
                    downloaded >>
    /\ UNCHANGED << ctlVars, hashVars >>

\* A click on Next
NextTrial ==
    /\ "study" \in activeScreens
    /\ ~buttons.nextDisabled
    /\ currentTrialIndex' = nextTrial(currentTrialIndex)
    /\ buttons' = IF currentTrialIndex < NumTrials - 1
                  THEN loadTrial(currentTrialIndex', trialResponses, buttons)
                  ELSE buttons
    /\ UNCHANGED << trialResponses, activeScreens, advanceTimers,
                    completionTimers, downloaded >>
    /\ UNCHANGED << ctlVars, hashVars >>

\* A click on Previous
PreviousTrial ==
    /\ "study" \in activeScreens
    /\ ~buttons.prevDisabled
    /\ currentTrialIndex' = previousTrial(currentTrialIndex)
    /\ buttons' = IF currentTrialIndex > 0
                  THEN loadTrial(currentTrialIndex', trialResponses, buttons)
                  ELSE buttons
    /\ UNCHANGED << trialResponses, activeScreens, advanceTimers,
                    completionTimers, downloaded >>
    /\ UNCHANGED << ctlVars, hashVars >>

\* A click on Download Results
DownloadResults ==
    /\ "completion" \in activeScreens
    /\ downloaded' = downloadResults(trialResponses)
    /\ UNCHANGED << currentTrialIndex, trialResponses, activeScreens,
                    advanceTimers, completionTimers, buttons >>
    /\ UNCHANGED << ctlVars, hashVars >>

\* A click on Start Over
RestartStudy ==
    /\ "completion" \in activeScreens
    /\ trialResponses' = NoResponses
    /\ currentTrialIndex' = 0
    /\ activeScreens' = (activeScreens \ {"completion"}) \cup {"welcome"}
    /\ UNCHANGED << advanceTimers, completionTimers, buttons, downloaded >>
    /\ UNCHANGED << ctlVars, hashVars >>

-----------------------------------------------------------------------------
(* The session controller *)

HashIdle ==
    /\ hName = <<>>
    /\ hManifest = <<>>
    /\ hPos = 0
    /\ hAcc = 0
    /\ hResult = NullStr

\* What one participant who edits the name can have in the name field:
\* "", "a", "A "
SoloNames == { <<>>, <<97>>, <<65, 32>> }

\* The name field of a participant who types the name once: "a"
OneName == { <<97>> }

\* The events of the page itself
Core(names) ==
    \/ \E raw \in names : HandleParticipantInput(raw)
    \/ \E outcome \in ManifestOutcomes : ManifestDone(outcome)
    \/ \E load \in loads, outcome \in LoadOutcomes : LoadDone(load, outcome)
    \/ \E choice \in {"A", "B"} : HandleChoice(choice)
    \/ SkipCurrentQuestion
    \/ GoNext
    \/ GoBack
    \/ CooldownExpire
    \/ AutosaveFire
    \/ DownloadResponses

\* The events of the response endpoint
Remote ==
    \/ SendResponses
    \/ \E req \in syncs, outcome \in SyncOutcomes : SyncDone(req, outcome)

\* Several participants, one after the other, on one page
Init ==
    /\ \E cfg \in Configs : StateIs(PageInit(cfg, Null, {}, 1, 0))
    /\ HashIdle
    /\ StudyIdle

Next == Core(RawNames)

Spec == Init /\ [][Next]_vars

\* One participant who leaves, reloads and returns
InitSolo ==
    /\ \E cfg \in SoloConfigs : StateIs(PageInit(cfg, Null, {}, 1, 0))
    /\ HashIdle
    /\ StudyIdle

NextSolo == Core(SoloNames) \/ Reload

SpecSolo == InitSolo /\ [][NextSolo]_vars

\* One participant in one sitting, in every mode, with the response endpoint
InitOne ==
    /\ \E cfg \in OneConfigs : StateIs(PageInit(cfg, Null, {}, 1, 0))
    /\ HashIdle
    /\ StudyIdle

NextOne == Core(OneName) \/ Remote

SpecOne == InitOne /\ [][NextOne]_vars

\* One participant who edits the name, in local mode or in an MTurk preview,
\* with working storage and no response endpoint
LockConfigs ==
    { c \in AllConfigs : /\ c.storage = "ok"
                         /\ ~c.responseEndpoint
                         /\ c.submissionMode = "mturk" => c.isPreview }

InitLock ==
    /\ \E cfg \in LockConfigs : StateIs(PageInit(cfg, Null, {}, 1, 0))
    /\ HashIdle
    /\ StudyIdle

NextLock == Core(SoloNames)

SpecLock == InitLock /\ [][NextLock]_vars

\* The names of two participants who share a browser: "a", "b"
ReturnNames == { <<97>>, <<98>> }

\* What localStorage holds after an earlier visit to the page: the visitor
\* entered the name raw, the manifest fetch ended with outcome, the dataset
\* loaded, the visitor chose A on the first question and closed the page.
EarlierVisit(cfg, raw, outcome) ==
    LET s1   == handleParticipantInput(PageInit(cfg, Null, {}, 1, 0), raw)
        s2   == loadPackManifestSettle(s1, outcome)
        load == CHOOSE l \in s2.loads : l.token = s2.activeLoadToken
        s3   == loadQuestionsSettle(s2, load, "ok")
        s4   == handleChoice(s3, "A")
    IN  reloadPage(s4).durable

\* The manifest fetch outcomes of the earlier visit: the pack list, a failure
EarlierOutcomes == { o \in ManifestOutcomes : o.kind \in {"array", "http_error"} }

\* A page opened in a browser that holds the session of an earlier visit
InitReturn ==
    /\ \E cfg \in Configs, raw \in ReturnNames, outcome \in EarlierOutcomes :
          StateIs(PageInit(cfg, EarlierVisit(cfg, raw, outcome), {}, 2, 0))
    /\ HashIdle
    /\ StudyIdle

NextReturn == Core(ReturnNames)

SpecReturn == InitReturn /\ [][NextReturn]_vars

\* Two participants on one page whose fetches all succeed. The fetches
\* settle and the timers fire; the participant is free to do nothing.
ManifestOk == ManifestDone(BothPacksOutcome)

LoadOk == \E load \in loads : LoadDone(load, "ok")

NextLive ==
    \/ \E raw \in ReturnNames : HandleParticipantInput(raw)
    \/ ManifestOk
    \/ LoadOk
    \/ \E choice \in {"A", "B"} : HandleChoice(choice)
    \/ SkipCurrentQuestion
    \/ GoNext
    \/ GoBack
    \/ CooldownExpire
    \/ AutosaveFire
    \/ DownloadResponses

\* Timers and fetches are scheduled by the event loop: each is weakly fair.
\* For the settling of a fetch and for the autosave callback WF_vars(A) is
\* written out, with the action's guard for ENABLED <<A>>_vars: the action
\* is not enabled forever without being taken.
ManifestFair == []<>(~manifestPending) \/ []<><<ManifestOk>>_vars

LoadFair == []<>(loads = {}) \/ []<><<LoadOk>>_vars

CooldownFair == WF_vars(CooldownExpire)

AutosaveFair == []<>(pendingAutosaves = 0) \/ []<><<AutosaveFire>>_vars

SpecLive ==
    /\ Init
    /\ [][NextLive]_vars
    /\ ManifestFair
    /\ LoadFair
    /\ CooldownFair
    /\ AutosaveFair

\* A page opened in a browser whose localStorage holds a session record that
\* this version of the page did not write: its index may be missing or
\* negative, or lie beyond the dataset.
StoredConfigs ==
    { c \in AllConfigs : /\ c.submissionMode = "local"
                         /\ ~c.responseEndpoint
                         /\ c.storage = "ok" }

\* The question set of the stored record
StoredSet(cfg) ==
    IF cfg.initialQuestionSet # NullStr THEN cfg.initialQuestionSet ELSE PackNames[1]

StoredAnswer(set, i) ==
    [ questionId |-> Dataset(set)[i].id, choice |-> "A", skipped |-> FALSE,
      by |-> <<97>> ]

\* The ledgers of the stored record: nothing, the first, the second, or the
\* first two questions answered
StoredLedgers(set) ==
    { <<Null, Null>>, <<StoredAnswer(set, 1), Null>>, <<Null, StoredAnswer(set, 2)>>,
      <<StoredAnswer(set, 1), StoredAnswer(set, 2)>> }

\* The index values of the stored record, when it has one
StoredIndexes == { -1, 0, 1, 5 }

StoredDoc(set, ledger, hasIndex, idx) ==
    [doc |-> [k \in { <<97>> } |->
        IF hasIndex
        THEN [ questionSet |-> set, responses |-> ledger, index |-> idx,
               participant |-> [name |-> <<97>>] ]
        ELSE [ questionSet |-> set, responses |-> ledger,
               participant |-> [name |-> <<97>>] ]]]

InitStored ==
    /\ \E cfg \in StoredConfigs, hasIndex \in BOOLEAN, idx \in StoredIndexes :
          \E ledger \in StoredLedgers(StoredSet(cfg)) :
              StateIs(PageInit(cfg, StoredDoc(StoredSet(cfg), ledger, hasIndex, idx),
                               {}, 2, 0))
    /\ HashIdle
    /\ StudyIdle

NextStored == Core(OneName)

SpecStored == InitStored /\ [][NextStored]_vars

\* The basic study page, with the survey controller's page left as loaded
InitBasic ==
    /\ StateIs(PageInit(CHOOSE cfg \in Configs : TRUE, Null, {}, 1, 0))
    /\ hName = <<>>
    /\ hManifest = <<>>
    /\ hPos = 0
    /\ hAcc = 0
    /\ hResult = NullStr
    /\ InitStudy

NextBasic ==
    \/ StartStudy
    \/ \E choice \in {"A", "B"} : SelectVideo(choice)
    \/ AdvanceTimerFire
    \/ CompletionTimerFire
    \/ NextTrial
    \/ PreviousTrial
    \/ DownloadResults
    \/ RestartStudy

SpecBasic == InitBasic /\ [][NextBasic]_vars

-----------------------------------------------------------------------------
(* Pack assignment on its own: hashString run one character at a time and  *)
(* pickPackForName called on a controller whose manifest is loaded         *)

\* The manifests a manifest file can produce, up to three packs
Manifests == { <<>>, <<"packA">>, <<"packA", "packB">>, <<"packA", "packB", "packC">> }

\* Code units of the enumerated names: "a", "b", "z", " "
NameAlphabet == { 97, 98, 122, 32 }

RECURSIVE SeqsUpTo(_, _)
SeqsUpTo(S, n) ==
    IF n = 0 THEN { <<>> }
    ELSE LET shorter == SeqsUpTo(S, n - 1) IN
         shorter \cup { Append(q, x) : q \in shorter, x \in S }

\* "xfjfxtf", whose hash is -2^31, and "polygenelubricants", likewise
MinHashNames ==
    { <<120, 102, 106, 102, 120, 116, 102>>,
      <<112, 111, 108, 121, 103, 101, 110, 101, 108, 117, 98, 114, 105, 99,
        97, 110, 116, 115>> }

\* "zzzzzz", whose hash is negative (-685785664)
NegativeHashNames == { <<122, 122, 122, 122, 122, 122>> }

\* The name keys pickPackForName is called with
HashNames ==
    SeqsUpTo(NameAlphabet, MaxNameLen) \cup MinHashNames \cup NegativeHashNames

\* A call of pickPackForName begins
HashStart(name) ==
    /\ hPos = 0
    /\ hResult = NullStr
    /\ hName' = name
    /\ hAcc' = 0
    /\ hPos' = 1
    /\ UNCHANGED << hManifest, hResult >>
    /\ UNCHANGED << ctlVars, studyVars >>

\* One turn of hashString's loop
HashChar ==
    /\ hPos >= 1
    /\ hPos <= Len(hName)
    /\ hAcc' = HashStep(hAcc, hName[hPos])
    /\ hPos' = hPos + 1
    /\ UNCHANGED << hName, hManifest, hResult >>
    /\ UNCHANGED << ctlVars, studyVars >>

\* hashString has returned: pickPackForName returns. The first call of a
\* behaviour is kept in packLog, for the later ones to be compared with.
HashReturn ==
    /\ hPos = Len(hName) + 1
    /\ hResult = NullStr
    /\ LET p == pickPackForName(Cur, hName) IN
        /\ hResult' = p.ret
        /\ Install([p.s EXCEPT !.packLog =
                        IF @ = {} THEN { <<hName, p.s.packManifest, p.ret>> } ELSE @])
    /\ UNCHANGED << hName, hManifest, hPos, hAcc >>
    /\ UNCHANGED studyVars

\* The caller is done with the result
HashReset ==
    /\ hResult # NullStr
    /\ hPos' = 0
    /\ hAcc' = 0
    /\ hResult' = NullStr
    /\ hName' = <<>>
    /\ UNCHANGED hManifest
    /\ UNCHANGED << ctlVars, studyVars >>

\* A page in local mode whose manifest has been loaded
InitHash ==
    /\ \E m \in Manifests :
        /\ hManifest = m
        /\ \E cfg \in Configs :
            StateIs([PageInit(cfg, Null, {}, 1, 0) EXCEPT
                        !.packManifest = m, !.manifestPending = FALSE])
    /\ hName = <<>>
    /\ hPos = 0
    /\ hAcc = 0
    /\ hResult = NullStr
    /\ StudyIdle

NextHash ==
    \/ \E name \in HashNames : HashStart(name)
    \/ HashChar
    \/ HashReturn
    \/ HashReset

SpecHash == InitHash /\ [][NextHash]_vars

-----------------------------------------------------------------------------
(* Pack assignment *)

C5_IndexInRange ==
    /\ hAcc >= MinInt32
    /\ hAcc <= MaxInt32
    /\ hPos >= 1 => hAcc = hashString(SubSeq(hName, 1, hPos - 1))
    /\ (hPos = Len(hName) + 1 /\ Len(packManifest) >= 1) =>
          /\ PackIndex(hAcc, Len(packManifest)) \in 0..(Len(packManifest) - 1)
          /\ hResult # NullStr =>
                hResult = packManifest[PackIndex(hAcc, Len(packManifest)) + 1]

\* C5 witness: a call for a name whose hash is -2^31 has returned the third
\* of three packs.
C5_Witness ==
    /\ hResult # NullStr
    /\ hAcc = MinInt32
    /\ Len(packManifest) = 3
    /\ hResult = packManifest[3]

\* The manifest fetch ends without a usable body: the fetch fails, the
\* status is not OK, the body is not JSON, or it is neither an array nor an
\* object with a packs array.
ManifestFailures == { o \in ManifestOutcomes : o.kind \notin {"array", "object"} }

LoadErrorText == "Could not load the question list. Confirm the file exists in /data."

\* C6: whenever the pack manifest is empty pickPackForName returns
\* 'questions_sample' for every name; and a manifest fetch that fails, is
\* answered with a non-OK status or has an unusable body leaves the manifest
\* empty, shows no error (the page is as it was, or says that the question
\* set is loading) and starts the waiting session on 'questions_sample'
\* unless a stored record is resumed instead.
C6_EmptyManifestFallback ==
    [][ /\ packManifest' = <<>> =>
              \A name \in HashNames : pickPackForName(Cur', name).ret = FallbackSet
        /\ \A outcome \in ManifestFailures :
              ManifestDone(outcome) =>
                  /\ packManifest' = <<>>
                  /\ dom'.helper # LoadErrorText
                  /\ dom'.helper \in { dom.helper, "Loading your question set..." }
                  /\ dom' = [dom EXCEPT !.helper = dom'.helper]
                  /\ (/\ resumeQueue # <<>>
                      /\ \A i \in DOMAIN resumeQueue :
                            getSessionRecord(Cur, resumeQueue[i]).ret = Null) =>
                        /\ questionSet' = FallbackSet
                        /\ [token |-> activeLoadToken', set |-> FallbackSet] \in loads'
      ]_vars

\* C6 witness: the manifest fetch is over, the manifest is empty, and the
\* participant's session runs on 'questions_sample' with its first question
\* on screen.
C6_Witness ==
    /\ ~manifestPending
    /\ packManifest = <<>>
    /\ sessionKey # <<>>
    /\ questionSet = FallbackSet
    /\ loadedQuestionSet = FallbackSet
    /\ Len(questions) > 0
    /\ dom.shown = questions[1].id
    /\ dom.helper = "Make a selection to continue."

-----------------------------------------------------------------------------
(* Navigation *)

\* C1 (as claimed): a Next click moves from question i to question i+1 only
\* if ledger slot i is non-empty and i is not the last index.
C1_NextOnlyWhenAnswered ==
    [][ (GoNext /\ index' = index + 1) =>
            (ResponseAt(Cur, index) # Null /\ index < Len(questions) - 1) ]_vars

\* C2 (as claimed): every Back click at i > 0 moves to i-1 whether or not
\* slot i is answered, Back at 0 leaves the index alone, and Back never
\* writes to the ledger.
C2_BackAlwaysMoves ==
    /\ goBack(Cur).responses = responses
    /\ (index = 0 => goBack(Cur).index = 0)
    /\ (index > 0 /\ ~dom.backDisabled => goBack(Cur).index = index - 1)

\* C2 (amended): a Back click at i > 0 outside the navigation cooldown moves
\* to i-1 whether or not slot i is answered; a Back click within the cooldown
\* is dropped; Back at 0 leaves the index alone; Back never writes to the
\* ledger.
C2_Back ==
    /\ goBack(Cur).responses = responses
    /\ (index = 0 => goBack(Cur).index = 0)
    /\ (index > 0 /\ ~dom.backDisabled /\ ~isNavigating =>
            goBack(Cur).index = index - 1)
    /\ (isNavigating => goBack(Cur) = Cur)

\* C2 witness: the second question is on screen, unanswered, outside the
\* cooldown, and the Back click moves to the first question.
C2_Witness ==
    /\ index = 1
    /\ Len(questions) >= 2
    /\ ~isNavigating
    /\ ~dom.backDisabled
    /\ ResponseAt(Cur, 1) = Null
    /\ dom.shown = questions[2].id
    /\ goBack(Cur).index = 0
    /\ goBack(Cur).dom.shown = questions[1].id

-----------------------------------------------------------------------------
(* Resume *)

\* Two ledgers hold the same answers in the same slots (a missing slot is an
\* empty slot).
LedgerEq(a, b) ==
    \A i \in 1..Max(Len(a), Len(b)) :
        (IF i \in DOMAIN a THEN a[i] ELSE Null) = (IF i \in DOMAIN b THEN b[i] ELSE Null)

\* The record the controller finds under the current session key.
CurrentRecord == getSessionRecord(Cur, sessionKey).ret

\* A step in which the resume of the current session key runs: the name
\* entry itself once the manifest has settled, else the manifest's settling.
ResumeStep ==
    \/ \E raw \in RawNames :
          /\ HandleParticipantInput(raw)
          /\ ResolvesName(Cur, raw)
          /\ ~manifestPending
    \/ /\ \E outcome \in ManifestOutcomes : ManifestDone(outcome)
       /\ resumeQueue # <<>>

SameName(raw1, raw2) == ToLowerCase(Trim(raw1)) = ToLowerCase(Trim(raw2))

\* C7: names that are equal after trimming and lower-casing resolve to the
\* same session key. In every reachable state, entering either of two such
\* names leads to the same session key and the same working state (ledger,
\* index, dataset, requests, storage; all but the name as typed), and when a
\* record is stored under that key and the manifest has settled, that record
\* is the one resumed, whichever spelling it was persisted under.
C7_SameKey ==
    \A raw1, raw2 \in RawNames :
        SameName(raw1, raw2) =>
            LET s1 == handleParticipantInput(Cur, raw1)
                s2 == handleParticipantInput(Cur, raw2)
                R  == getSessionRecord(Cur, getNameKey(raw1)).ret
            IN  /\ getNameKey(raw1) = getNameKey(raw2)
                /\ s1.sessionKey = s2.sessionKey
                /\ s1 = [s2 EXCEPT !.participantName = s1.participantName]
                /\ (/\ ResolvesName(Cur, raw1)
                    /\ ~manifestPending
                    /\ R # Null
                    /\ R.questionSet # NullStr) =>
                        /\ s2.sessionKey = ToLowerCase(Trim(raw1))
                        /\ LedgerEq(s2.responses, R.responses)
                        /\ s2.index = R.index
                        /\ s2.questionSet = R.questionSet
                        /\ s2.participantName = R.participant.name

\* C7 witness: a record with an answer was persisted while the name field
\* held "A", the name field has been emptied since, and entering "a" finds
\* and resumes that record.
C7_Witness ==
    /\ lastResolvedNameKey = <<>>
    /\ ~manifestPending
    /\ LET R == getSessionRecord(Cur, <<97>>).ret
           s == handleParticipantInput(Cur, <<97>>)
       IN  /\ R # Null
           /\ R.participant.name = <<65>>
           /\ R.questionSet # NullStr
           /\ \E i \in DOMAIN R.responses : R.responses[i] # Null
           /\ s.sessionKey = <<97>>
           /\ s.responses = R.responses
           /\ s.index = R.index
           /\ s.participantName = <<65>>

-----------------------------------------------------------------------------
(* Submission payload *)

\* The slots of a ledger that hold a response.
NonEmptySlots(ledger) == { i \in DOMAIN ledger : ledger[i] # Null }

\* out lists the non-empty slots of ledger, in slot order, and nothing else.
IsInOrderNonEmpty(out, ledger) ==
    /\ Len(out) = Cardinality(NonEmptySlots(ledger))
    /\ \A i \in NonEmptySlots(ledger) :
          out[Cardinality({ j \in NonEmptySlots(ledger) : j <= i })] = ledger[i]

\* C8: answering every question in order yields a complete, ordered
\* payload. In every reachable state: a choice c on the question at index i
\* files c, with the question's id, in ledger slot i and touches no other
\* slot and not the index; Save & Next leaves the ledger alone and moves on
\* by one question at most; and when every question is answered the payload
\* built for download has exactly one entry per question, in question order,
\* with the question's id and the choice filed for it, and totalQuestions is
\* the number of questions.
C8_AnswersInOrder ==
    /\ \A c \in dom.choices :
          (~dom.choiceDisabled /\ index + 1 \in DOMAIN questions) =>
              LET s == handleChoice(Cur, c) IN
              /\ s.index = index
              /\ s.questions = questions
              /\ s.responses[index + 1].choice = c
              /\ s.responses[index + 1].questionId = questions[index + 1].id
              /\ ~s.responses[index + 1].skipped
              /\ \A i \in DOMAIN responses :
                    i # index + 1 => s.responses[i] = responses[i]
    /\ ~dom.nextDisabled =>
          LET s == goNext(Cur) IN
          /\ s.responses = responses
          /\ s.questions = questions
          /\ s.index \in { index, index + 1 }
    /\ allQuestionsAnswered(Cur) =>
          \A now \in Times :
              LET payload == downloadResponses(Cur, now).ret IN
              /\ payload.totalQuestions = Len(questions)
              /\ Len(payload.responses) = Len(questions)
              /\ \A i \in DOMAIN questions :
                    /\ payload.responses[i].questionId = questions[i].id
                    /\ payload.responses[i].choice = responses[i].choice

\* C8 witness: the three questions of a dataset have been answered A, B, A
\* in order, the third question is on screen, and the payload offered for
\* download lists the choices A, B, A for questions 1, 2, 3.
C8_Witness ==
    /\ Len(questions) = 3
    /\ index = 2
    /\ ~dom.localPanelHidden
    /\ \A i \in 1..3 : responses[i] # Null /\ ~responses[i].skipped
    /\ LET payload == downloadResponses(Cur, 1).ret IN
          /\ payload.totalQuestions = 3
          /\ [i \in 1..3 |-> payload.responses[i].choice] = <<"A", "B", "A">>
          /\ [i \in 1..3 |-> payload.responses[i].questionId] =
                [i \in 1..3 |-> questions[i].id]

\* C9: buildSubmissionPayload is a pure function of the working state. In
\* every reachable state a call leaves the state as it was; its responses
\* are exactly the non-empty ledger slots in slot order; its other fields are
\* the dataset name, the participant and the number of questions; and a
\* second call, at any later instant, returns a payload that differs from
\* the first in completedAt at most.
C9_BuilderPure ==
    \A t1, t2 \in Times :
        LET b1 == buildSubmissionPayload(Cur, t1)
            b2 == buildSubmissionPayload(b1.s, t2)
        IN  /\ b1.s = Cur
            /\ b2.s = Cur
            /\ IsInOrderNonEmpty(b1.ret.responses, responses)
            /\ b1.ret.totalQuestions = Len(questions)
            /\ b1.ret.participant.name = participantName
            /\ b1.ret.completedAt = t1
            /\ b2.ret = [b1.ret EXCEPT !.completedAt = t2]

\* C9 witness: the ledger has an empty slot before an answered one, and the
\* payload holds the answered slot alone.
C9_Witness ==
    /\ Len(responses) >= 2
    /\ responses[1] = Null
    /\ responses[2] # Null
    /\ buildSubmissionPayload(Cur, 1).ret.responses = << responses[2] >>

\* C10 (as claimed): a manual send that the endpoint answers with a non-2xx
\* status ends as a failure: the status line reads that the upload failed.
C10_Non2xxIsFailure ==
    [][ \A req \in syncs :
            (SyncDone(req, "http_500") /\ req.manual) =>
                dom'.submissionStatus =
                    "Upload failed. Please try again or use the download option." ]_vars

-----------------------------------------------------------------------------
(* The ledger *)

\* The option values deriveOptions produces for a question.
OptionValues(question) == SeqRange(deriveOptions(question))

\* C11 (as claimed): in every reachable state every non-empty ledger entry
\* has a choice among the option values of the question at its slot, or a
\* null choice, and the choice is null only when the entry is marked skipped.
C11_ChoiceIsOffered ==
    \A i \in DOMAIN responses :
        (responses[i] # Null /\ i \in DOMAIN questions) =>
            /\ responses[i].choice = NullStr \/ responses[i].choice \in OptionValues(questions[i])
            /\ responses[i].choice = NullStr => responses[i].skipped

\* Every response of a ledger was created under the session key key.
OwnedBy(ledger, key) ==
    \A i \in DOMAIN ledger : ledger[i] # Null => ledger[i].by = key

\* Every record of a store document holds only responses created under the
\* key it is stored under.
StoreOwned(store) ==
    store # Null => \A k \in DOMAIN store.doc : OwnedBy(store.doc[k].responses, k)

\* C12 (as claimed): in every reachable state the non-empty slots of the
\* working ledger are responses of the currently identified participant,
\* and no record of the session store holds a response that was created
\* under another name's key.
C12_LedgerOwnedByParticipant ==
    /\ sessionKey # <<>> => OwnedBy(responses, sessionKey)
    /\ StoreOwned(cachedSessions)
    /\ StoreOwned(durable)

\* The record stored under key in a store document, or Null.
RecordIn(store, key) ==
    IF store # Null /\ key \in DOMAIN store.doc THEN store.doc[key] ELSE Null

\* The keys of the records of a store document.
KeysOf(store) == IF store = Null THEN {} ELSE DOMAIN store.doc

\* A step in which the session of the name in the name field is resumed or
\* created: the name entry itself once the manifest has settled, else the
\* manifest's settling with callbacks waiting.
SessionStartStep ==
    \/ \E raw \in RawNames :
          /\ HandleParticipantInput(raw)
          /\ ResolvesName(Cur, raw)
          /\ ~manifestPending
    \/ /\ \E outcome \in ManifestOutcomes : ManifestDone(outcome)
       /\ resumeQueue # <<>>
       /\ sessionKey # <<>>

\* C13 (as claimed): when the name changes to another normalized name B,
\* the questions, ledger, index and loaded dataset in memory are discarded
\* before B's session is resumed or created (B's session starts with no
\* dataset in memory and with B's stored ledger and index, or an empty
\* ledger and index 0), and no step changes the record stored under a key
\* other than the active one, in localStorage or in the page's copy of it.
C13_SwitchDiscardsAndKeeps ==
    [][ /\ \A raw \in RawNames :
              (HandleParticipantInput(raw) /\ ResolvesName(Cur, raw)) =>
                  /\ questions' = <<>>
                  /\ loadedQuestionSet' = NullStr
                  /\ \A k \in KeysOf(durable) : RecordIn(durable', k) = durable.doc[k]
                  /\ \A k \in KeysOf(cachedSessions) :
                        RecordIn(cachedSessions', k) = cachedSessions.doc[k]
        /\ SessionStartStep =>
              LET R == getSessionRecord(Cur, sessionKey').ret IN
              /\ OwnedBy(responses', sessionKey')
              /\ R = Null => (responses' = <<>> /\ index' = 0)
              /\ R # Null => (LedgerEq(responses', R.responses) /\ index' = R.index)
        /\ \A k \in KeysOf(durable) :
              k # sessionKey => RecordIn(durable', k) = durable.doc[k]
        /\ pageLoads' = pageLoads =>
              \A k \in KeysOf(cachedSessions) :
                  k # sessionKey => RecordIn(cachedSessions', k) = cachedSessions.doc[k]
      ]_vars

-----------------------------------------------------------------------------
(* Submission *)

\* The participant can reach a submission control: the local panel with its
\* download button is shown, or the MTurk submit button is shown and enabled.
AffordanceExposed ==
    \/ ~dom.localPanelHidden
    \/ (~dom.submissionPanelHidden /\ ~dom.submitDisabled)

\* C14 (as claimed): the submission affordance is exposed only while a
\* dataset is loaded and every slot of its ledger is non-empty.
C14_AffordanceOnlyWhenComplete ==
    AffordanceExposed =>
        /\ loadedQuestionSet # NullStr
        /\ allQuestionsAnswered(Cur)

-----------------------------------------------------------------------------
(* The basic study *)

\* C15 (as claimed): in the basic study the index moves past trial i only
\* if responses[i] is set, and whenever the completion screen is shown the
\* results file holds a response for every trial.
C15_NoTrialPassedUnanswered ==
    [][ /\ currentTrialIndex' > currentTrialIndex =>
              trialResponses[currentTrialIndex + 1] # Null
        /\ "completion" \in activeScreens' =>
              Len(downloadResults(trialResponses')) = NumTrials
      ]_vars

-----------------------------------------------------------------------------
(* Resume index *)

\* Number.isInteger(index) && index >= 0 on the index of a stored record
ValidIndex(record) == "index" \in DOMAIN record /\ record.index >= 0

\* The index of the first question without a response in ledger, the last
\* question when every one of the n questions has a response.
FirstUnanswered(ledger, n) ==
    IF \E i \in 1..n : i \notin DOMAIN ledger \/ ledger[i] = Null
    THEN (CHOOSE i \in 1..n :
             /\ i \notin DOMAIN ledger \/ ledger[i] = Null
             /\ \A j \in 1..(i - 1) : j \in DOMAIN ledger /\ ledger[j] # Null) - 1
    ELSE n - 1

\* Where the spec's policy resumes a record on a dataset of n questions
PolicyIndex(record, n) ==
    IF ValidIndex(record) THEN Min(record.index, n - 1)
    ELSE FirstUnanswered(record.responses, n)

\* C16 (as claimed): when a stored record is resumed and its dataset is in
\* memory (at once when it is already loaded, else when its load completes),
\* the index is the first unanswered question of the restored ledger, or the
\* last question when all are answered, if the record has no index or an
\* invalid one, and the recorded index (clamped) otherwise.
C16_ResumeIndexPolicy ==
    [][ LET R == getSessionRecord(Cur, sessionKey').ret IN
        /\ (ResumeStep /\ R # Null /\ loadedQuestionSet' # NullStr
                /\ loadedQuestionSet' = questionSet' /\ questions' # <<>>) =>
              index' = PolicyIndex(R, Len(questions'))
        /\ \A load \in loads :
              (/\ LoadDone(load, "ok")
               /\ load.token = activeLoadToken
               /\ sessionKey # <<>>
               /\ R # Null
               /\ R.questionSet = load.set
               /\ ~ValidIndex(R)) =>
                  index' = PolicyIndex(R, Len(questions'))
      ]_vars

\* C17 (as claimed): whenever a non-empty dataset is loaded the current
\* index is a valid question index.
C17_IndexInRange ==
    (loadedQuestionSet # NullStr /\ questions # <<>>) =>
        (0 <= index /\ index <= Len(questions) - 1)

-----------------------------------------------------------------------------
(* Choice and skip *)

\* A question is on display at the current index
ActiveAt(s) == s.index + 1 \in DOMAIN s.questions

\* after differs from before in slot i of the ledger only
OnlySlotWritten(before, after, i) ==
    /\ Len(after.responses) = Max(Len(before.responses), i + 1)
    /\ \A j \in DOMAIN after.responses :
          j # i + 1 =>
              after.responses[j] = (IF j \in DOMAIN before.responses
                                    THEN before.responses[j] ELSE Null)

\* The navigation gating of s is the one updateNavState computes from s
GatingEvaluated(s) == updateNavState(s).dom = s.dom

\* What a click on an enabled choice does to an active question: slot i is
\* written with the choice, the gating is re-evaluated, the index stays.
ChoiceInPlace(choice) ==
    LET after == handleChoice(Cur, choice) IN
    /\ after.responses[index + 1] # Null
    /\ after.responses[index + 1].choice = choice
    /\ ~after.responses[index + 1].skipped
    /\ OnlySlotWritten(Cur, after, index)
    /\ GatingEvaluated(after)
    /\ after.index = index

\* What a click on an enabled Skip writes: slot i, as skipped, with no choice
SkipWritten(after) ==
    /\ after.responses[index + 1] # Null
    /\ after.responses[index + 1].choice = NullStr
    /\ after.responses[index + 1].skipped
    /\ OnlySlotWritten(Cur, after, index)

\* C18 (as claimed): selecting or changing a choice, and an explicit skip,
\* each write ledger slot i for the current index i, re-evaluate the
\* navigation gating and leave the current index equal to i.
C18_ChoiceAndSkipInPlace ==
    ActiveAt(Cur) =>
        /\ \A choice \in dom.choices : ~dom.choiceDisabled => ChoiceInPlace(choice)
        /\ ~dom.skipDisabled =>
              LET after == skipCurrentQuestion(Cur) IN
              /\ SkipWritten(after)
              /\ GatingEvaluated(after)
              /\ after.index = index

\* C18 (amended): selecting or changing a choice is in place. An explicit
\* skip writes slot i as skipped; on the last question it re-evaluates the
\* gating in place; on any other question it moves on to question i + 1 and
\* evaluates the gating there, unless the navigation cooldown is running, in
\* which case the index stays i and the gating is not re-evaluated.
C18_ChoiceInPlaceSkipAdvances ==
    ActiveAt(Cur) =>
        /\ \A choice \in dom.choices : ~dom.choiceDisabled => ChoiceInPlace(choice)
        /\ ~dom.skipDisabled =>
              LET after == skipCurrentQuestion(Cur) IN
              /\ SkipWritten(after)
              /\ IF index >= Len(questions) - 1
                 THEN after.index = index /\ GatingEvaluated(after)
                 ELSE IF isNavigating
                 THEN after.index = index /\ after.dom = dom
                 ELSE after.index = index + 1 /\ GatingEvaluated(after)

\* A skip has moved the controller on: the question before the current one
\* is recorded as skipped and the current one is unanswered, with Skip on offer.
C18_Witness ==
    /\ index >= 1
    /\ ActiveAt(Cur)
    /\ ResponseAt(Cur, index - 1) # Null
    /\ ResponseAt(Cur, index - 1).skipped
    /\ ResponseAt(Cur, index) = Null
    /\ ~dom.skipDisabled

-----------------------------------------------------------------------------
(* The last question *)

\* The current index is the last question of the loaded dataset
OnLastQuestion(s) == s.questions # <<>> /\ s.index = Len(s.questions) - 1

\* C19 (as claimed): while the current index is the last question, Next is disabled
\* whatever the answer state, and goNext leaves index and ledger unchanged.
C19_NextClosedOnLast ==
    OnLastQuestion(Cur) =>
        /\ dom.nextDisabled
        /\ goNext(Cur).index = index
        /\ goNext(Cur).responses = responses

-----------------------------------------------------------------------------
(* Blocked *)

\* Local mode without a participant name, or an MTurk preview
Blocked(s) == getBlockingReason(s) # NullStr

\* C20: while the controller is Blocked, the choice inputs, Back, Next and
\* Skip are all disabled, so that no choice, skip or navigation handler can
\* be triggered by the participant; this includes the states after a
\* dataset load has completed and rendered while Blocked.
C20_BlockedLocksControls ==
    Blocked(Cur) =>
        /\ dom.choices # {} => dom.choiceDisabled
        /\ dom.backDisabled
        /\ dom.nextDisabled
        /\ dom.skipDisabled

\* Blocked with a question of the loaded dataset on display
C20_Witness ==
    /\ Blocked(Cur)
    /\ ActiveAt(Cur)
    /\ loadedQuestionSet # NullStr
    /\ dom.shown = questions[index + 1].id
    /\ dom.choices # {}

-----------------------------------------------------------------------------
(* Reaching the first question *)

\* The question at the current index of the session's dataset is on display
\* with its choices enabled, and the controller is not Blocked.
Displayed(s) ==
    /\ ~Blocked(s)
    /\ s.loadedQuestionSet # NullStr
    /\ s.loadedQuestionSet = s.questionSet
    /\ ActiveAt(s)
    /\ s.dom.shown = s.questions[s.index + 1].id
    /\ s.dom.choices = OptionValues(s.questions[s.index + 1])
    /\ ~s.dom.choiceDisabled

\* C21 (as claimed): once a valid name K is entered, and with every fetch
\* succeeding, the controller eventually displays a question of K's dataset
\* with the controls unlocked, unless the name is changed first.
C21_EventuallyDisplayed ==
    \A key \in NameKeys :
        (sessionKey = key) ~> (sessionKey # key \/ Displayed(Cur))

-----------------------------------------------------------------------------
(* The navigation cooldown *)

\* The session store, in the page and in localStorage
StoreOf(s) == << s.cachedSessions, s.durable >>

\* What the participant sees of the question: which one, and its choices
DisplayOf(s) == << s.dom.shown, s.dom.choices >>

\* C22: while isNavigating is true every navigation attempt is dropped as a
\* whole. A render, Next and Back change nothing at all; the advance after
\* a Skip on a question that is not the last changes neither the index, the
\* display nor the stored session (the skip itself has written its slot);
\* the render requested by a
\* completed load changes neither the index nor the display.
C22_CooldownDropsNavigation ==
    isNavigating =>
        /\ \A idx \in -1..(Len(questions) + 1) : renderQuestion(Cur, idx) = Cur
        /\ goNext(Cur) = Cur
        /\ goBack(Cur) = Cur
        /\ (ActiveAt(Cur) /\ ~dom.skipDisabled /\ index < Len(questions) - 1) =>
              LET after == skipCurrentQuestion(Cur) IN
              /\ after.index = index
              /\ after.dom = dom
              /\ StoreOf(after) = StoreOf(Cur)
              /\ OnlySlotWritten(Cur, after, index)
        /\ \A load \in loads :
              LET after == loadQuestionsSettle(Cur, load, "ok") IN
              /\ after.index = index
              /\ after.isNavigating
              /\ DisplayOf(after) = DisplayOf(Cur)

\* The cooldown is running on an answered question that is not the last,
\* with Next on offer and a dataset load about to complete
C22_Witness ==
    /\ isNavigating
    /\ ActiveAt(Cur)
    /\ index < Len(questions) - 1
    /\ ~dom.nextDisabled
    /\ loads # {}

-----------------------------------------------------------------------------
(* Autosave debounce *)

\* A ledger entry that the Session Record of the current key does not hold yet
Unsaved(s) ==
    LET record == RecordIn(s.cachedSessions, s.sessionKey)
    IN  record = Null \/ ~LedgerEq(record.responses, s.responses)

\* C23, as stated: at most one autosave timer is pending, a mutation restarts
\* it, and while the timer stays pending (a burst in progress) nothing is
\* written to the Session Record of the session.
C23_OnlyTimerWritesDuringBurst ==
    [][ (autosaveTimer /\ autosaveTimer' /\ pageLoads' = pageLoads
            /\ sessionKey' = sessionKey)
        => RecordIn(cachedSessions', sessionKey) = RecordIn(cachedSessions, sessionKey) ]_vars

\* C23, amended: at most one autosave timer is pending and state.autosaveTimer
\* holds its handle; a choice on a question restarts the timer and writes
\* nothing itself;
\* the timer, when it fires, writes the ledger as it is then and leaves no
\* timer pending.
C23_OneTimerWritesLatestLedger ==
    /\ pendingAutosaves <= 1
    /\ autosaveTimer <=> (pendingAutosaves = 1)
    /\ \A choice \in dom.choices :
          (~dom.choiceDisabled /\ ActiveAt(Cur)) =>
              LET after == handleChoice(Cur, choice)
              IN  /\ after.autosaveTimer
                  /\ after.pendingAutosaves = 1
                  /\ StoreOf(after) = StoreOf(Cur)
    /\ pendingAutosaves > 0 =>
          LET after == autosaveFire(Cur)
          IN  /\ after.pendingAutosaves = 0
              /\ ~after.autosaveTimer
              /\ (sessionKey # <<>> /\ config.storage = "ok") =>
                    /\ ~Unsaved(after)
                    /\ RecordIn(after.durable, sessionKey) # Null
                    /\ LedgerEq(RecordIn(after.durable, sessionKey).responses, responses)

\* A timer is pending for an answer that the Session Record does not hold yet
C23_Witness ==
    /\ autosaveTimer
    /\ sessionKey # <<>>
    /\ config.storage = "ok"
    /\ RecordIn(cachedSessions, sessionKey) # Null
    /\ Unsaved(Cur)
    /\ \E i \in DOMAIN responses : responses[i] # Null

\* The Session Record stored under key holds an entry in ledger slot i
SlotStored(s, key, i) ==
    LET record == RecordIn(s.durable, key)
    IN  /\ record # Null
        /\ i + 1 \in DOMAIN record.responses
        /\ record.responses[i + 1] # Null

\* C24: with storage available and timers firing, an entry that participant
\* key made in ledger slot i leads to an entry in slot i of the Session Record
\* stored under key, whatever the participant does next.
C24_EventuallyReconciled ==
    \A key \in NameKeys : \A i \in 0..(NumQuestions - 1) :
        (/\ config.storage = "ok"
         /\ sessionKey = key
         /\ ResponseAt(Cur, i) # Null
         /\ ResponseAt(Cur, i).by = key)
        ~> SlotStored(Cur, key, i)

-----------------------------------------------------------------------------
(* Remote sync *)

\* The requests whose fetch has not settled
LiveSyncs(s) == s.syncs

\* The controller is null, or belongs to the one request that is live
ControllerTracksLive(s) ==
    /\ Cardinality(LiveSyncs(s)) <= 1
    /\ \A req \in LiveSyncs(s) : s.remoteSaveController = req.id
    /\ LiveSyncs(s) = {} => s.remoteSaveController = 0

\* What starting a sync from state s must leave: one live request, newly
\* started, held by the controller, the request pending in s aborted
StartsAfresh(s, after, manual) ==
    /\ ControllerTracksLive(after)
    /\ after.remoteSaveController # 0
    /\ after.remoteSaveController # s.remoteSaveController
    /\ LiveSyncs(after) = { [id |-> after.remoteSaveController, manual |-> manual] }
    /\ LiveSyncs(after) \cap LiveSyncs(s) = {}

\* C25: at most one remote sync request is live; remoteSaveController is null
\* or the controller of the most recently started unfinished request; an
\* autosave or a manual send that starts while a request is pending aborts
\* it, and the aborted request's completion leaves the newer controller in
\* place.
C25_OneLiveSync ==
    /\ ControllerTracksLive(Cur)
    /\ (config.responseEndpoint /\ pendingAutosaves > 0) =>
          StartsAfresh(Cur, autosaveFire(Cur), FALSE)
    /\ (config.responseEndpoint /\ ~dom.localPanelHidden /\ ~dom.sendDisabled) =>
          StartsAfresh(Cur, sendResponses(Cur), TRUE)

\* A request is live that was started while another one was pending
C25_Witness ==
    /\ remoteSaveController = 2
    /\ \E req \in syncs : req.id = 2
    /\ pendingAutosaves > 0

UploadFailedText == "Upload failed. Please try again or use the download option."

\* What the participant works on: the questions, the ledger and the position
ProgressOf(s) == << s.questions, s.responses, s.index >>

\* The controls that navigate or answer
NavControlsOf(s) ==
    << s.dom.nextDisabled, s.dom.backDisabled, s.dom.skipDisabled,
       s.dom.choiceDisabled, s.dom.choices, s.dom.shown >>

\* C26: a remote POST that fails (network error, or abort by a newer sync)
\* leaves the questions, the ledger, the index and the stored Session Record
\* as they are and changes no navigation control; a failed manual send
\* re-enables the send control, and the download still yields the whole
\* payload; a failed autosave changes nothing on the page.
C26_FailedPostIsHarmless ==
    /\ \A req \in syncs :
          LET after == syncSettle(Cur, req, "network_error")
          IN  /\ ProgressOf(after) = ProgressOf(Cur)
              /\ StoreOf(after) = StoreOf(Cur)
              /\ NavControlsOf(after) = NavControlsOf(Cur)
              /\ req.manual =>
                    /\ ~after.dom.sendDisabled
                    /\ after.dom = [dom EXCEPT !.sendDisabled = FALSE,
                                               !.submissionStatus = UploadFailedText]
                    /\ \A now \in Times :
                          LET file == downloadResponses(after, now).ret
                          IN  /\ file = downloadResponses(Cur, now).ret
                              /\ file.responses = SeqFilterNonNull(responses)
                              /\ file.totalQuestions = Len(questions)
              /\ ~req.manual => after.dom = dom
    /\ (syncs # {} /\ pendingAutosaves > 0) =>
          LET after == autosaveFire(Cur)
          IN  /\ ProgressOf(after) = ProgressOf(Cur)
              /\ NavControlsOf(after) = NavControlsOf(Cur)
              /\ (\E req \in syncs : req.manual) =>
                    /\ ~after.dom.sendDisabled
                    /\ after.dom.submissionStatus = UploadFailedText
              /\ (\A req \in syncs : ~req.manual) => after.dom = dom

\* A manual send of a ledger with an answer has failed
C26_Witness ==
    /\ dom.submissionStatus = UploadFailedText
    /\ ~dom.sendDisabled
    /\ ~dom.localPanelHidden
    /\ \E i \in DOMAIN responses : responses[i] # Null

-----------------------------------------------------------------------------
(* The bodies that are POSTed. Local submission with an upload endpoint,    *)
(* two participants on one browser, fetches that succeed.                   *)

SendConfigs ==
    { c \in AllConfigs : /\ c.submissionMode = "local"
                         /\ c.initialQuestionSet = NullStr
                         /\ c.responseEndpoint
                         /\ c.storage = "ok" }

InitSend ==
    /\ \E cfg \in SendConfigs : StateIs(PageInit(cfg, Null, {}, 1, 0))
    /\ HashIdle
    /\ StudyIdle

NextSend == NextLive \/ Remote

SpecSend == InitSend /\ [][NextSend]_vars

\* The body that sendResponses POSTs from state s: syncToEndpoint(false)
\* after persistSession
sendResponsesBody(s, now) == syncBody(persistSession(s), FALSE, now)

\* The body that the autosave timer's callback POSTs from state s
autosaveBody(s, now) ==
    LET s2 == persistSession(s)
    IN  syncBody(s2, ~allQuestionsAnswered(s2), now)

\* Every question of the loaded dataset has a ledger entry
EveryQuestionAnswered(s) ==
    /\ Len(s.questions) > 0
    /\ \A i \in 0..(Len(s.questions) - 1) : ResponseAt(s, i) # Null

\* A body's status agrees with the state it was built from
StatusHonest(s, body) ==
    /\ body.status = "completed" =>
          /\ EveryQuestionAnswered(s)
          /\ body.progress.answered = body.progress.total
          /\ body.progress.total > 0
    /\ ~EveryQuestionAnswered(s) => body.status = "in_progress"

\* C27: a POST with status 'completed' carries a ledger entry for every
\* question of the loaded dataset (answered = total > 0), and a POST sent
\* while a question is unanswered has status 'in_progress', for the autosave
\* timer's POST and for the manual send's.
C27_CompletedMeansComplete ==
    \A now \in Times :
        /\ pendingAutosaves > 0 => StatusHonest(Cur, autosaveBody(Cur, now))
        /\ (~dom.localPanelHidden /\ ~dom.sendDisabled) =>
              StatusHonest(Cur, sendResponsesBody(Cur, now))

\* The object that is serialised as the POST body: the payload's own fields,
\* spread, with the three sync fields next to them
PostedObject(body) ==
    body.payload @@ [ autosave |-> body.autosave, status |-> body.status,
                      progress |-> body.progress ]

SyncFields == { "autosave", "status", "progress" }

\* The object is the file a download writes plus the three sync fields
LayersOnDownload(object, file, s) ==
    /\ DOMAIN object = DOMAIN file \cup SyncFields
    /\ \A field \in DOMAIN file : object[field] = file[field]
    /\ object.autosave = TRUE
    /\ object.progress = [ answered |-> Len(file.responses),
                           total    |-> file.totalQuestions ]

-----------------------------------------------------------------------------
(* Dataset loads that are superseded or fail *)

\* A load that a newer load has superseded
Superseded(s, load) == load.token # s.activeLoadToken

\* C29: the response of a superseded dataset load, success or failure,
\* changes neither questions, loadedQuestionSet, ledger nor index, nor any
\* control or message on the page.
C29_StaleLoadDiscarded ==
    \A load \in loads : \A outcome \in LoadOutcomes :
        Superseded(Cur, load) =>
            LET after == loadQuestionsSettle(Cur, load, outcome)
            IN  /\ ProgressOf(after) = ProgressOf(Cur)
                /\ after.loadedQuestionSet = loadedQuestionSet
                /\ after.dom = dom

LoadFailures == LoadOutcomes \ { "ok" }

\* What a failing dataset load leaves behind
FailureContained(s, after) ==
    /\ ProgressOf(after) = ProgressOf(s)
    /\ after.loadedQuestionSet = s.loadedQuestionSet
    /\ after.dom.helper = LoadErrorText
    /\ after.dom.nextDisabled

\* C30: a dataset load that fails leaves questions, ledger and index as
\* they were, shows the load-error message and disables Next; and from then
\* on Next stays disabled in every step in which no load succeeds.
C30_FailedLoadBlocksForward ==
    /\ [](\A load \in loads : \A outcome \in LoadFailures :
             FailureContained(Cur, loadQuestionsSettle(Cur, load, outcome)))
    /\ [][ (/\ dom.helper = LoadErrorText
            /\ dom.nextDisabled
            /\ loadedQuestionSet' = loadedQuestionSet
            /\ pageLoads' = pageLoads)
           => dom'.nextDisabled ]_vars

-----------------------------------------------------------------------------
(* The session store *)

\* The Session Record that a persist writes from state s
RecordOf(s) ==
    [ questionSet |-> s.questionSet,
      responses   |-> s.responses,
      index       |-> s.index,
      participant |-> [name |-> s.participantName] ]

\* The store document has one entry per key and every key is a normalized name
KeysNormalized(store) ==
    \A key \in KeysOf(store) : key # <<>> /\ getNameKey(key) = key

\* C31: the store holds one Session Record per normalized name, and a
\* persist for the current key replaces that key's record by the record of
\* the current state, whole, and leaves every other key's record as it was,
\* in the cached document and, when the write succeeds, in localStorage.
C31_PersistReplacesOwnRecord ==
    /\ KeysNormalized(cachedSessions)
    /\ KeysNormalized(durable)
    /\ (sessionKey # <<>> /\ config.storage # "none") =>
          LET before == readSessions(Cur).ret
              after  == persistSession(Cur)
              cached == after.cachedSessions.doc
          IN  /\ DOMAIN cached = DOMAIN before \cup {sessionKey}
              /\ cached[sessionKey] = RecordOf(Cur)
              /\ \A key \in DOMAIN before \ {sessionKey} : cached[key] = before[key]
              /\ config.storage = "ok" =>
                    after.durable = [doc |-> JsonRoundTrip(cached)]

\* Two names have a record, and the current one's is behind the ledger
C31_Witness ==
    /\ sessionKey # <<>>
    /\ Cardinality(KeysOf(cachedSessions)) = 2
    /\ sessionKey \in KeysOf(cachedSessions)
    /\ RecordIn(cachedSessions, sessionKey) # RecordOf(Cur)
    /\ \E i \in DOMAIN responses : responses[i] # Null

-----------------------------------------------------------------------------
(* Two tabs of one browser: they share localStorage and nothing else *)

OtherTabName == <<98>>

\* What a second tab leaves in localStorage when it is opened on the
\* document storage, a participant enters raw, answers the first question and
\* closes the tab: the second tab runs the same controller
OtherTabVisit(cfg, storage, raw) ==
    LET s1   == handleParticipantInput(PageInit(cfg, storage, {}, 1, 0), raw)
        s2   == loadPackManifestSettle(s1, BothPacksOutcome)
        load == CHOOSE l \in s2.loads : l.token = s2.activeLoadToken
        s3   == loadQuestionsSettle(s2, load, "ok")
        s4   == handleChoice(s3, "A")
    IN  reloadPage(s4).durable

OtherTab ==
    /\ config.storage = "ok"
    /\ RecordIn(durable, getNameKey(OtherTabName)) = Null
    /\ Install([Cur EXCEPT !.durable = OtherTabVisit(config, durable, OtherTabName)])
    /\ UNCHANGED << hashVars, studyVars >>

NextTabs == Core(OneName) \/ OtherTab

SpecTabs == Init /\ [][NextTabs]_vars

\* C32: a persist reads the document as it is in localStorage, replaces the
\* current name's entry and writes the document back, so the Session Record
\* that another tab wrote under another name is still in localStorage after
\* this tab persists.
C32_PersistKeepsOtherTabsRecord ==
    \A key \in KeysOf(durable) :
        (config.storage = "ok" /\ sessionKey # <<>> /\ key # sessionKey) =>
            RecordIn(persistSession(Cur).durable, key) = RecordIn(durable, key)

-----------------------------------------------------------------------------
(* Storage that fails: setItem throws (quota), window.localStorage is       *)
(* missing (none), or reading window.localStorage throws (denied, as in a   *)
(* document whose storage access is blocked)                                *)

FailingStorage == { "quota", "none", "denied" }

DeniedConfigs ==
    { [ initialQuestionSet |-> NullStr, submissionMode |-> "local",
        isPreview |-> FALSE, responseEndpoint |-> FALSE, storage |-> st ] :
      st \in FailingStorage }

InitDenied ==
    /\ \E cfg \in DeniedConfigs : StateIs(PageInit(cfg, Null, {}, 1, 0))
    /\ HashIdle
    /\ StudyIdle

NextDenied == Core(OneName)

SpecDenied == InitDenied /\ [][NextDenied]_vars

\* C33: when the durable store cannot be written the failure is absorbed. A
\* persist leaves questions, ledger and index as they are; a choice is still
\* recorded; the navigation cooldown still ends and Next still moves on; the
\* download still yields the file with every ledger entry.
C33_StorageFailureAbsorbed ==
    config.storage \in FailingStorage =>
        /\ ProgressOf(persistSession(Cur)) = ProgressOf(Cur)
        /\ isNavigating => cooldownTimer
        /\ \A choice \in dom.choices :
              (~dom.choiceDisabled /\ ActiveAt(Cur)) =>
                  LET filed == ResponseAt(handleChoice(Cur, choice), index)
                  IN  filed # Null /\ filed.choice = choice
        /\ (~isNavigating /\ ~dom.nextDisabled /\ ActiveAt(Cur)
                /\ index < Len(questions) - 1) =>
              goNext(Cur).index = index + 1
        /\ ~dom.localPanelHidden =>
              \A now \in Times :
                  LET file == downloadResponses(Cur, now).ret
                  IN  file # Null /\ file.responses = SeqFilterNonNull(responses)

-----------------------------------------------------------------------------
(* Which dataset a name gets *)

\* The dataset the precedence gives name key in state s: the stored
\* record's, else the startup parameter's, else the assigned pack
DatasetByPrecedence(s, key) ==
    LET record == getSessionRecord(s, key).ret
    IN  IF record # Null THEN record.questionSet
        ELSE IF s.config.initialQuestionSet # NullStr THEN s.config.initialQuestionSet
        ELSE pickPackForName(s, key).ret

\* From state s the handler has left the load of dataset set as the current
\* load
LoadStartedFor(s, after, set) ==
    /\ after.activeLoadToken > s.activeLoadToken
    /\ after.questionSet = set
    /\ \E load \in after.loads :
          load.token = after.activeLoadToken /\ load.set = set

\* C34: when a name is resolved to a session, the dataset requested is the
\* stored record's questionSet if a record exists for the name key, else
\* the startup parameter's dataset if one was supplied, else the pack
\* pickPackForName gives the key, whether the resume runs from the input
\* event or when the manifest arrives.
C34_DatasetPrecedence ==
    /\ \A raw \in RawNames :
          (ResolvesName(Cur, raw) /\ ~manifestPending) =>
              LET key == getNameKey(Trim(raw))
              IN  LoadStartedFor(Cur, handleParticipantInput(Cur, raw),
                                 DatasetByPrecedence(Cur, key))
    /\ \A outcome \in ManifestOutcomes :
          (manifestPending /\ resumeQueue # <<>>) =>
              LET key   == resumeQueue[Len(resumeQueue)]
                  after == loadPackManifestSettle(Cur, outcome)
              IN  LoadStartedFor(Cur, after,
                                 DatasetByPrecedence(
                                     [Cur EXCEPT !.packManifest = after.packManifest], key))

-----------------------------------------------------------------------------
(* The question on screen and the slot that is written *)

\* A click on a choice, or on Skip, would write ledger slot s.index
WritesSlot(s) ==
    /\ ActiveAt(s)
    /\ \/ ~s.dom.choiceDisabled /\ s.dom.choices # {}
       \/ ~s.dom.skipDisabled

\* C35: whenever a choice or a skip writes ledger slot i, the question on
\* screen is question i of the loaded dataset.
C35_WrittenSlotIsDisplayed ==
    WritesSlot(Cur) => dom.shown = questions[index + 1].id

-----------------------------------------------------------------------------
(* A returning participant who may leave the page again *)

InitLeave ==
    /\ \E cfg \in Configs, raw \in OneName, outcome \in EarlierOutcomes :
          StateIs(PageInit(cfg, EarlierVisit(cfg, raw, outcome), {}, 1, 0))
    /\ HashIdle
    /\ StudyIdle

NextLeave == Core(OneName) \/ Reload

SpecLeave == InitLeave /\ [][NextLeave]_vars

\* C36: once the Session Record stored under a key has an entry in slot i,
\* the record stored under that key after any step still has an entry in slot
\* i, as long as no other dataset is stored for the key.
C36_StoredProgressKept ==
    [][ \A key \in NameKeys : \A i \in 0..(NumQuestions - 1) :
            (/\ SlotStored(Cur, key, i)
             /\ RecordIn(durable', key) # Null =>
                    RecordIn(durable', key).questionSet
                        \in { RecordIn(durable, key).questionSet, NullStr })
            => /\ RecordIn(durable', key) # Null
               /\ i + 1 \in DOMAIN RecordIn(durable', key).responses
               /\ RecordIn(durable', key).responses[i + 1] # Null ]_vars

\* C37: whenever a dataset is loaded, every ledger slot before the current
\* index holds an entry: the participant is never positioned past an
\* unanswered question.
C37_NoGapBeforeIndex ==
    questions # <<>> =>
        \A i \in 0..(index - 1) : ResponseAt(Cur, i) # Null

\* C38: in the basic study exactly one of the welcome, study and completion
\* screens is active in every reachable state, whatever clicks and pending
\* 500 ms timers interleave.
C38_ExactlyOneScreenActive ==
    Cardinality(activeScreens) = 1

=============================================================================
